---- MODULE Spec2Model ----
(***************************************************************************)
(* Pico Chess (6x6 chess with drops): the rules engine of                  *)
(* src/lib/game-logic.ts and the server-side move arbiter and room         *)
(* manager of src/unnamed/part_003 (websocket-handler / game-room-manager).*)
(***************************************************************************)
EXTENDS Integers, FiniteSets, Sequences, TLC

(***************************************************************************)
(* Data model (src/lib/types.ts)                                           *)
(***************************************************************************)
PieceTypes == {"KING", "QUEEN", "ROOK", "BISHOP", "KNIGHT", "PAWN"}

PlayerColors == {"WHITE", "BLACK"}

\* Position {row, col} is the pair <<row, col>>; the board has rows and
\* columns 0..5.
Pos == (0..5) \X (0..5)

\* A board cell is a Piece or null; null is the record NoPiece.
NoPiece == [type |-> "NONE", color |-> "NONE"]

Pc(t, c) == [type |-> t, color |-> c]

\* null for Position-valued fields (lastMove, checkedKingPosition).
NullPos == <<-9, -9>>

NoMove == [from |-> NullPos, to |-> NullPos]

\* The "from" of a drop recorded in lastMove.
DropFrom == <<-1, -1>>

EmptyHand == [t \in PieceTypes |-> 0]

EmptyBoard == [p \in Pos |-> NoPiece]

\* The null returned by dropPiece and the null newGameState of the handlers.
NullState ==
  [board |-> EmptyBoard, currentPlayer |-> "NULL", player1Hand |-> EmptyHand,
   player2Hand |-> EmptyHand, lastMove |-> NoMove, checkedKingPosition |-> NullPos]

\* The outcome of a call that throws a TypeError instead of returning.
Thrown == [NullState EXCEPT !.currentPlayer = "TypeError"]

Opp(c) == IF c = "WHITE" THEN "BLACK" ELSE "WHITE"

(***************************************************************************)
(* Rules engine (src/lib/game-logic.ts)                                    *)
(***************************************************************************)
\* A starting position with the BLACK king and rook on each other's cells.
getInitialGameStateKingRookSwapped ==
  [board |->
     [p \in Pos |->
        CASE p = <<0, 0>> -> Pc("KING", "WHITE")
          [] p = <<0, 1>> -> Pc("ROOK", "WHITE")
          [] p = <<0, 2>> -> Pc("KNIGHT", "WHITE")
          [] p = <<0, 3>> -> Pc("BISHOP", "WHITE")
          [] p = <<1, 0>> -> Pc("PAWN", "WHITE")
          [] p = <<5, 5>> -> Pc("ROOK", "BLACK")
          [] p = <<5, 4>> -> Pc("KING", "BLACK")
          [] p = <<5, 3>> -> Pc("KNIGHT", "BLACK")
          [] p = <<5, 2>> -> Pc("BISHOP", "BLACK")
          [] p = <<4, 5>> -> Pc("PAWN", "BLACK")
          [] OTHER -> NoPiece],
   currentPlayer |-> "WHITE",
   player1Hand |-> EmptyHand,
   player2Hand |-> EmptyHand,
   lastMove |-> NoMove,
   checkedKingPosition |-> NullPos]

getInitialGameState ==
  [board |->
     [p \in Pos |->
        CASE p = <<0, 0>> -> Pc("KING", "WHITE")
          [] p = <<0, 1>> -> Pc("ROOK", "WHITE")
          [] p = <<0, 2>> -> Pc("KNIGHT", "WHITE")
          [] p = <<0, 3>> -> Pc("BISHOP", "WHITE")
          [] p = <<1, 0>> -> Pc("PAWN", "WHITE")
          [] p = <<5, 5>> -> Pc("KING", "BLACK")
          [] p = <<5, 4>> -> Pc("ROOK", "BLACK")
          [] p = <<5, 3>> -> Pc("KNIGHT", "BLACK")
          [] p = <<5, 2>> -> Pc("BISHOP", "BLACK")
          [] p = <<4, 5>> -> Pc("PAWN", "BLACK")
          [] OTHER -> NoPiece],
   currentPlayer |-> "WHITE",
   player1Hand |-> EmptyHand,
   player2Hand |-> EmptyHand,
   lastMove |-> NoMove,
   checkedKingPosition |-> NullPos]

isValidPosition(row, col) == row >= 0 /\ row < 6 /\ col >= 0 /\ col < 6

\* A sliding direction that is not stopped by the pieces in between.
SlideMovesThrough(board, from, color, dr, dc) ==
  {<<from[1] + dr * k, from[2] + dc * k>> :
     k \in {n \in 1..5 :
              /\ isValidPosition(from[1] + dr * n, from[2] + dc * n)
              /\ board[<<from[1] + dr * n, from[2] + dc * n>>].color # color}}

\* One sliding direction of the ROOK / BISHOP loops: offsets 1..5, stopping
\* (break) at the board edge and at the first occupied cell, which is a
\* destination only when it holds a piece of the other color.
SlideMoves(board, from, color, dr, dc) ==
  {<<from[1] + dr * k, from[2] + dc * k>> :
     k \in {n \in 1..5 :
              /\ isValidPosition(from[1] + dr * n, from[2] + dc * n)
              /\ \A j \in 1..(n - 1) :
                   board[<<from[1] + dr * j, from[2] + dc * j>>] = NoPiece
              /\ board[<<from[1] + dr * n, from[2] + dc * n>>].color # color}}

\* A single-step target of the KING / KNIGHT cases: on the board and empty
\* or holding a piece of the other color.
StepMoves(board, from, color, offsets) ==
  {<<from[1] + o[1], from[2] + o[2]>> :
     o \in {d \in offsets :
              /\ isValidPosition(from[1] + d[1], from[2] + d[2])
              /\ board[<<from[1] + d[1], from[2] + d[2]>>].color # color}}

KingOffsets == ((-1..1) \X (-1..1)) \ {<<0, 0>>}

KnightOffsets ==
  {<<-2, -1>>, <<-2, 1>>, <<-1, -2>>, <<-1, 2>>,
   <<1, -2>>, <<1, 2>>, <<2, -1>>, <<2, 1>>}

\* PAWN moves whose diagonal steps do not need a piece to capture.
PawnMovesDiagonalAlways(board, from, color) ==
  LET direction == IF color = "WHITE" THEN 1 ELSE -1
      newRow == from[1] + direction
  IN  {p \in {<<newRow, from[2]>>} :
         isValidPosition(newRow, from[2]) /\ board[p] = NoPiece}
      \cup
      {<<newRow, from[2] + o>> :
         o \in {d \in {-1, 1} :
                  /\ isValidPosition(newRow, from[2] + d)
                  /\ board[<<newRow, from[2] + d>>].color # color}}

PawnMoves(board, from, color) ==
  LET direction == IF color = "WHITE" THEN 1 ELSE -1
      newRow == from[1] + direction
  IN  {p \in {<<newRow, from[2]>>} :
         isValidPosition(newRow, from[2]) /\ board[p] = NoPiece}
      \cup
      {<<newRow, from[2] + o>> :
         o \in {d \in {-1, 1} :
                  /\ isValidPosition(newRow, from[2] + d)
                  /\ board[<<newRow, from[2] + d>>] # NoPiece
                  /\ board[<<newRow, from[2] + d>>].color # color}}

\* getPotentialMoves reads only gameState.board; QUEEN has no case in the
\* switch and so has no moves.
getPotentialMoves(board, from) ==
  LET piece == board[from]
  IN  CASE piece = NoPiece -> {}
        [] piece.type = "KING" -> StepMoves(board, from, piece.color, KingOffsets)
        [] piece.type = "ROOK" ->
             SlideMoves(board, from, piece.color, 0, -1)
               \cup SlideMoves(board, from, piece.color, 0, 1)
               \cup SlideMoves(board, from, piece.color, -1, 0)
               \cup SlideMoves(board, from, piece.color, 1, 0)
        [] piece.type = "BISHOP" ->
             SlideMoves(board, from, piece.color, -1, -1)
               \cup SlideMoves(board, from, piece.color, -1, 1)
               \cup SlideMoves(board, from, piece.color, 1, -1)
               \cup SlideMoves(board, from, piece.color, 1, 1)
        [] piece.type = "KNIGHT" -> StepMoves(board, from, piece.color, KnightOffsets)
        [] piece.type = "PAWN" -> PawnMoves(board, from, piece.color)
        [] OTHER -> {}

\* Row-major order of the nested row/col scans.
ScanBefore(p, q) == p[1] < q[1] \/ (p[1] = q[1] /\ p[2] <= q[2])

\* The king the row-major scan finds first (break on the first hit), or
\* NullPos when there is none.
FindKing(board, color) ==
  LET ks == {p \in Pos : board[p] = Pc("KING", color)}
  IN  IF ks = {} THEN NullPos
      ELSE CHOOSE p \in ks : \A q \in ks : ScanBefore(p, q)

\* Some piece of attackerColor has target among its potential moves.
Attacked(board, attackerColor, target) ==
  \E p \in Pos :
    /\ board[p].color = attackerColor
    /\ target \in getPotentialMoves(board, p)

wouldKingBeInCheck(gameState, from, to) ==
  LET movingPiece == gameState.board[from]
      kingPosition ==
        IF movingPiece.type = "KING" THEN to
        ELSE FindKing(gameState.board, gameState.currentPlayer)
      newBoard == [gameState.board EXCEPT ![to] = movingPiece, ![from] = NoPiece]
  IN  IF kingPosition = NullPos THEN FALSE
      ELSE Attacked(newBoard, Opp(gameState.currentPlayer), kingPosition)

\* isLegalMove without the test of the piece's color.
isLegalMoveAnyColor(gameState, from, to, getAllLegalMoves) ==
  LET piece == gameState.board[from]
      legalMoves ==
        {m \in getPotentialMoves(gameState.board, from) :
           ~wouldKingBeInCheck(gameState, from, m)}
  IN  IF piece = NoPiece THEN {}
      ELSE IF to # NullPos /\ ~getAllLegalMoves THEN {m \in legalMoves : m = to}
      ELSE legalMoves

\* isLegalMove without the final filter on the destination.
isLegalMoveIgnoresTo(gameState, from, to, getAllLegalMoves) ==
  LET piece == gameState.board[from]
  IN  IF piece = NoPiece \/ piece.color # gameState.currentPlayer THEN {}
      ELSE {m \in getPotentialMoves(gameState.board, from) :
              ~wouldKingBeInCheck(gameState, from, m)}

\* isLegalMove(gameState, from, to, getAllLegalMoves); to = NullPos is null.
isLegalMove(gameState, from, to, getAllLegalMoves) ==
  LET piece == gameState.board[from]
      legalMoves ==
        {m \in getPotentialMoves(gameState.board, from) :
           ~wouldKingBeInCheck(gameState, from, m)}
  IN  IF piece = NoPiece \/ piece.color # gameState.currentPlayer THEN {}
      ELSE IF to # NullPos /\ ~getAllLegalMoves THEN {m \in legalMoves : m = to}
      ELSE legalMoves

HandOf(gameState, color) ==
  IF color = "WHITE" THEN gameState.player1Hand ELSE gameState.player2Hand

WithHand(gameState, color, hand) ==
  IF color = "WHITE" THEN [gameState EXCEPT !.player1Hand = hand]
  ELSE [gameState EXCEPT !.player2Hand = hand]

isPawnPromotion(movingPiece, to) ==
  /\ movingPiece.type = "PAWN"
  /\ \/ (movingPiece.color = "WHITE" /\ to[1] = 5)
     \/ (movingPiece.color = "BLACK" /\ to[1] = 0)

\* makeMove with the turn handed over after every move, the promoting pawn's
\* included.
makeMoveAlwaysFlips(gameState, from, to) ==
  LET movingPiece == gameState.board[from]
      capturedPiece == gameState.board[to]
      hand == HandOf(gameState, gameState.currentPlayer)
      newHand ==
        IF capturedPiece # NoPiece
        THEN [hand EXCEPT ![capturedPiece.type] = hand[capturedPiece.type] + 1]
        ELSE hand
  IN  [WithHand(gameState, gameState.currentPlayer, newHand)
         EXCEPT !.board = [gameState.board EXCEPT ![to] = movingPiece, ![from] = NoPiece],
                !.lastMove = [from |-> from, to |-> to],
                !.currentPlayer = Opp(gameState.currentPlayer)]

\* makeMove with the captured piece credited to the hand of the player who
\* lost it.
makeMoveCreditsLoser(gameState, from, to) ==
  LET movingPiece == gameState.board[from]
      capturedPiece == gameState.board[to]
      hand == HandOf(gameState, Opp(gameState.currentPlayer))
      newHand ==
        IF capturedPiece # NoPiece
        THEN [hand EXCEPT ![capturedPiece.type] = hand[capturedPiece.type] + 1]
        ELSE hand
      moved ==
        [WithHand(gameState, Opp(gameState.currentPlayer), newHand)
           EXCEPT !.board = [gameState.board EXCEPT ![to] = movingPiece, ![from] = NoPiece],
                  !.lastMove = [from |-> from, to |-> to]]
  IN  IF isPawnPromotion(movingPiece, to) THEN moved
      ELSE [moved EXCEPT !.currentPlayer = Opp(gameState.currentPlayer)]

\* makeMove that turns a pawn arriving on its far rank into a QUEEN.
makeMovePromotesToQueen(gameState, from, to) ==
  LET movingPiece == gameState.board[from]
      capturedPiece == gameState.board[to]
      arrived == IF isPawnPromotion(movingPiece, to)
                 THEN Pc("QUEEN", movingPiece.color) ELSE movingPiece
      newBoard == [gameState.board EXCEPT ![to] = arrived, ![from] = NoPiece]
      hand == HandOf(gameState, gameState.currentPlayer)
      newHand ==
        IF capturedPiece # NoPiece
        THEN [hand EXCEPT ![capturedPiece.type] = hand[capturedPiece.type] + 1]
        ELSE hand
      moved ==
        [WithHand(gameState, gameState.currentPlayer, newHand)
           EXCEPT !.board = newBoard, !.lastMove = [from |-> from, to |-> to]]
  IN  IF isPawnPromotion(movingPiece, to) THEN moved
      ELSE [moved EXCEPT !.currentPlayer = Opp(gameState.currentPlayer)]

makeMoveDiscardsCaptured(gameState, from, to) ==
  LET movingPiece == gameState.board[from]
      newBoard == [gameState.board EXCEPT ![to] = movingPiece, ![from] = NoPiece]
      moved ==
        [gameState EXCEPT !.board = newBoard, !.lastMove = [from |-> from, to |-> to]]
  IN  IF isPawnPromotion(movingPiece, to) THEN moved
      ELSE [moved EXCEPT !.currentPlayer = Opp(gameState.currentPlayer)]

makeMove(gameState, from, to) ==
  LET movingPiece == gameState.board[from]
      capturedPiece == gameState.board[to]
      newBoard == [gameState.board EXCEPT ![to] = movingPiece, ![from] = NoPiece]
      hand == HandOf(gameState, gameState.currentPlayer)
      newHand ==
        IF capturedPiece # NoPiece
        THEN [hand EXCEPT ![capturedPiece.type] = hand[capturedPiece.type] + 1]
        ELSE hand
      moved ==
        [WithHand(gameState, gameState.currentPlayer, newHand)
           EXCEPT !.board = newBoard, !.lastMove = [from |-> from, to |-> to]]
  IN  IF isPawnPromotion(movingPiece, to) THEN moved
      ELSE [moved EXCEPT !.currentPlayer = Opp(gameState.currentPlayer)]

PawnOnFarRank(pieceType, color, to) ==
  /\ pieceType = "PAWN"
  /\ \/ (color = "WHITE" /\ to[1] = 5)
     \/ (color = "BLACK" /\ to[1] = 0)

\* board[to.row][to.col] = piece: a cell of the grid is overwritten; a column
\* index past the end of a row makes the row array longer.
SetCell(board, to, piece) ==
  IF to \in DOMAIN board THEN [board EXCEPT ![to] = piece]
  ELSE [p \in DOMAIN board \cup {to} |-> IF p = to THEN piece ELSE board[p]]

\* dropPiece without the test of the hand count.
dropPieceNoHandCheck(gameState, pieceType, to) ==
  LET handToUpdate == HandOf(gameState, gameState.currentPlayer)
  IN  IF to[1] \notin 0..5 THEN Thrown
      ELSE IF to \in DOMAIN gameState.board /\ gameState.board[to] # NoPiece
      THEN NullState
      ELSE IF PawnOnFarRank(pieceType, gameState.currentPlayer, to) THEN NullState
      ELSE [WithHand(gameState, gameState.currentPlayer,
                     [handToUpdate EXCEPT ![pieceType] = handToUpdate[pieceType] - 1])
              EXCEPT !.board = SetCell(gameState.board, to,
                                       Pc(pieceType, gameState.currentPlayer)),
                     !.lastMove = [from |-> DropFrom, to |-> to],
                     !.currentPlayer = Opp(gameState.currentPlayer)]

\* dropPiece without the promotion-rank test for pawns.
dropPieceAnyRank(gameState, pieceType, to) ==
  LET handToUpdate == HandOf(gameState, gameState.currentPlayer)
  IN  IF handToUpdate[pieceType] = 0 THEN NullState
      ELSE IF to[1] \notin 0..5 THEN Thrown
      ELSE IF to \in DOMAIN gameState.board /\ gameState.board[to] # NoPiece
      THEN NullState
      ELSE [WithHand(gameState, gameState.currentPlayer,
                     [handToUpdate EXCEPT ![pieceType] = handToUpdate[pieceType] - 1])
              EXCEPT !.board = SetCell(gameState.board, to,
                                       Pc(pieceType, gameState.currentPlayer)),
                     !.lastMove = [from |-> DropFrom, to |-> to],
                     !.currentPlayer = Opp(gameState.currentPlayer)]

\* dropPiece that also clears checkedKingPosition.
dropPieceClearsCheckedKing(gameState, pieceType, to) ==
  LET handToUpdate == HandOf(gameState, gameState.currentPlayer)
  IN  IF handToUpdate[pieceType] = 0 THEN NullState
      ELSE IF to[1] \notin 0..5 THEN Thrown
      ELSE IF to \in DOMAIN gameState.board /\ gameState.board[to] # NoPiece
      THEN NullState
      ELSE IF PawnOnFarRank(pieceType, gameState.currentPlayer, to) THEN NullState
      ELSE [WithHand(gameState, gameState.currentPlayer,
                     [handToUpdate EXCEPT ![pieceType] = handToUpdate[pieceType] - 1])
              EXCEPT !.board = SetCell(gameState.board, to,
                                       Pc(pieceType, gameState.currentPlayer)),
                     !.lastMove = [from |-> DropFrom, to |-> to],
                     !.currentPlayer = Opp(gameState.currentPlayer),
                     !.checkedKingPosition = NullPos]

\* to is any pair of integers: gameState.board[to.row] is undefined for a row
\* outside 0..5 and indexing it throws; a column outside the row reads
\* undefined, which passes the test for an empty square.
dropPiece(gameState, pieceType, to) ==
  LET handToUpdate == HandOf(gameState, gameState.currentPlayer)
  IN  IF handToUpdate[pieceType] = 0 THEN NullState
      ELSE IF to[1] \notin 0..5 THEN Thrown
      ELSE IF to \in DOMAIN gameState.board /\ gameState.board[to] # NoPiece
      THEN NullState
      ELSE IF PawnOnFarRank(pieceType, gameState.currentPlayer, to) THEN NullState
      ELSE [WithHand(gameState, gameState.currentPlayer,
                     [handToUpdate EXCEPT ![pieceType] = handToUpdate[pieceType] - 1])
              EXCEPT !.board = SetCell(gameState.board, to,
                                       Pc(pieceType, gameState.currentPlayer)),
                     !.lastMove = [from |-> DropFrom, to |-> to],
                     !.currentPlayer = Opp(gameState.currentPlayer)]

isKingInCheck(gameState, kingColor) ==
  LET kingPosition == FindKing(gameState.board, kingColor)
  IN  IF kingPosition = NullPos THEN FALSE
      ELSE Attacked(gameState.board, Opp(kingColor), kingPosition)

\* "Check if any piece can make a legal move": the first loop of isCheckmate
\* and isStalemate, run on {...gameState, currentPlayer: playerColor}.
HasLegalMove(gameState, playerColor) ==
  \E p \in Pos :
    /\ gameState.board[p].color = playerColor
    /\ isLegalMove([gameState EXCEPT !.currentPlayer = playerColor],
                   p, NullPos, TRUE) # {}

\* The (pieceType, cell) pairs the drop loops of isCheckmate and isStalemate
\* reach: a held type, an empty cell, pawns never on the promotion rank.
DropCandidates(gameState, playerColor) ==
  {d \in PieceTypes \X Pos :
     /\ HandOf(gameState, playerColor)[d[1]] > 0
     /\ gameState.board[d[2]] = NoPiece
     /\ ~PawnOnFarRank(d[1], playerColor, d[2])}

\* isCheckmate without the loop over the hand: only moves count as escapes.
isCheckmateMovesOnly(gameState, playerColor) ==
  IF ~isKingInCheck(gameState, playerColor) THEN FALSE
  ELSE IF HasLegalMove(gameState, playerColor) THEN FALSE
  ELSE TRUE

\* isCheckmate whose drop loop tries every piece type, held or not.
isCheckmateAnyPieceType(gameState, playerColor) ==
  IF ~isKingInCheck(gameState, playerColor) THEN FALSE
  ELSE IF HasLegalMove(gameState, playerColor) THEN FALSE
  ELSE IF \E d \in {e \in PieceTypes \X Pos :
                      /\ gameState.board[e[2]] = NoPiece
                      /\ ~PawnOnFarRank(e[1], playerColor, e[2])} :
            ~isKingInCheck([gameState EXCEPT
                              !.board[d[2]] = Pc(d[1], playerColor)], playerColor)
       THEN FALSE
  ELSE TRUE

isCheckmate(gameState, playerColor) ==
  IF ~isKingInCheck(gameState, playerColor) THEN FALSE
  ELSE IF HasLegalMove(gameState, playerColor) THEN FALSE
  ELSE IF \E d \in DropCandidates(gameState, playerColor) :
            ~isKingInCheck([gameState EXCEPT
                              !.board[d[2]] = Pc(d[1], playerColor)], playerColor)
       THEN FALSE
  ELSE TRUE

\* isStalemate without the loop over the hand: only moves count.
isStalemateMovesOnly(gameState, playerColor) ==
  IF isKingInCheck(gameState, playerColor) THEN FALSE
  ELSE IF HasLegalMove(gameState, playerColor) THEN FALSE
  ELSE TRUE

\* isStalemate without its first test: a king in check does not exclude it.
isStalemateIgnoresCheck(gameState, playerColor) ==
  IF HasLegalMove(gameState, playerColor) THEN FALSE
  ELSE IF DropCandidates(gameState, playerColor) # {} THEN FALSE
  ELSE TRUE

isStalemate(gameState, playerColor) ==
  IF isKingInCheck(gameState, playerColor) THEN FALSE
  ELSE IF HasLegalMove(gameState, playerColor) THEN FALSE
  ELSE IF DropCandidates(gameState, playerColor) # {} THEN FALSE
  ELSE TRUE

(***************************************************************************)
(* Objects and copies: which object each assignment of the engine writes   *)
(* to.  A GameState object holds its scalar fields itself and references   *)
(* to three nested objects (board, player1Hand, player2Hand).  A copy is   *)
(* kept together with the object it was made from: `given` is the value of *)
(* the original, `fresh` the value of the copy, `shared` the nested        *)
(* objects the two have in common.                                         *)
(***************************************************************************)
NestedFields == {"board", "player1Hand", "player2Hand"}

\* JSON.stringify followed by JSON.parse, value by value: null cells stay
\* null, pieces become new {type, color} objects, counts and positions are
\* written and read back as numbers.
JsonValue(state) ==
  [board |-> [p \in DOMAIN state.board |->
                IF state.board[p] = NoPiece THEN NoPiece
                ELSE Pc(state.board[p].type, state.board[p].color)],
   currentPlayer |-> state.currentPlayer,
   player1Hand |-> [t \in DOMAIN state.player1Hand |-> state.player1Hand[t]],
   player2Hand |-> [t \in DOMAIN state.player2Hand |-> state.player2Hand[t]],
   lastMove |-> [from |-> state.lastMove.from, to |-> state.lastMove.to],
   checkedKingPosition |-> state.checkedKingPosition]

\* { ...state }: a new object whose nested objects are those of the original.
SpreadCopy(state) == [given |-> state, fresh |-> state, shared |-> NestedFields]

\* A copy that stops at the top level, as an object spread does.
JsonCopyShallow(state) == [given |-> state, fresh |-> state, shared |-> NestedFields]

\* JSON.parse(JSON.stringify(state)): every nested object is new.
JsonCopy(state) == [given |-> state, fresh |-> JsonValue(state), shared |-> {}]

\* copy.field = value for a scalar field of the copy.
WriteTop(h, field, value) == [h EXCEPT !.fresh[field] = value]

\* copy.field[key] = value: the write lands in the nested object, which the
\* original sees too when it is shared.
WriteNested(h, field, key, value) ==
  [h EXCEPT !.fresh[field][key] = value,
            !.given[field] = IF field \in h.shared
                             THEN [h.given[field] EXCEPT ![key] = value]
                             ELSE @]

\* The original after a callee has worked on a spread copy of it.
SeenThrough(state, copyAfter) ==
  [state EXCEPT !.board = copyAfter.board,
                !.player1Hand = copyAfter.player1Hand,
                !.player2Hand = copyAfter.player2Hand]

HandField(color) == IF color = "WHITE" THEN "player1Hand" ELSE "player2Hand"

\* makeMove statement by statement: the object passed in after the call and
\* the object returned.
makeMoveCall(gameState, from, to) ==
  LET h0 == JsonCopy(gameState)
      movingPiece == h0.fresh.board[from]
      capturedPiece == h0.fresh.board[to]
      h1 == WriteNested(h0, "board", to, movingPiece)
      h2 == WriteNested(h1, "board", from, NoPiece)
      handToUpdate == HandField(h2.fresh.currentPlayer)
      h3 == IF capturedPiece # NoPiece
            THEN WriteNested(h2, handToUpdate, capturedPiece.type,
                             h2.fresh[handToUpdate][capturedPiece.type] + 1)
            ELSE h2
      h4 == WriteTop(h3, "lastMove", [from |-> from, to |-> to])
      h5 == IF isPawnPromotion(movingPiece, to) THEN h4
            ELSE WriteTop(h4, "currentPlayer", Opp(h4.fresh.currentPlayer))
  IN  [given |-> h5.given, returned |-> h5.fresh]

\* dropPiece statement by statement.
dropPieceCall(gameState, pieceType, to) ==
  LET handToUpdate == gameState[HandField(gameState.currentPlayer)]
      h0 == JsonCopy(gameState)
      h1 == WriteNested(h0, "board", to, Pc(pieceType, gameState.currentPlayer))
      newHand == HandField(gameState.currentPlayer)
      h2 == WriteNested(h1, newHand, pieceType, h1.fresh[newHand][pieceType] - 1)
      h3 == WriteTop(h2, "lastMove", [from |-> DropFrom, to |-> to])
      h4 == WriteTop(h3, "currentPlayer", Opp(h3.fresh.currentPlayer))
  IN  IF handToUpdate[pieceType] = 0 THEN [given |-> gameState, returned |-> NullState]
      ELSE IF gameState.board[to] # NoPiece
      THEN [given |-> gameState, returned |-> NullState]
      ELSE IF PawnOnFarRank(pieceType, gameState.currentPlayer, to)
      THEN [given |-> gameState, returned |-> NullState]
      ELSE [given |-> h4.given, returned |-> h4.fresh]

\* wouldKingBeInCheck statement by statement: the move is simulated in
\* newGameState.
wouldKingBeInCheckCall(gameState, from, to) ==
  LET h0 == JsonCopy(gameState)
      movingPiece == h0.fresh.board[from]
      kingPosition ==
        IF movingPiece.type = "KING" THEN to
        ELSE FindKing(h0.fresh.board, gameState.currentPlayer)
      h1 == WriteNested(h0, "board", to, movingPiece)
      h2 == WriteNested(h1, "board", from, NoPiece)
      h3 == WriteTop(h2, "currentPlayer", Opp(h2.fresh.currentPlayer))
  IN  IF kingPosition = NullPos THEN [given |-> h0.given, returned |-> FALSE]
      ELSE [given |-> h3.given,
            returned |-> Attacked(h3.fresh.board, h3.fresh.currentPlayer, kingPosition)]

\* The filter loop of isLegalMove over the potential moves still to try.
RECURSIVE LegalFilter(_, _, _, _)
LegalFilter(gameState, from, todo, legalMoves) ==
  IF todo = {} THEN [given |-> gameState, returned |-> legalMoves]
  ELSE LET move == CHOOSE m \in todo : \A q \in todo : ScanBefore(m, q)
           call == wouldKingBeInCheckCall(gameState, from, move)
       IN  LegalFilter(call.given, from, todo \ {move},
                       IF call.returned THEN legalMoves ELSE legalMoves \cup {move})

isLegalMoveCall(gameState, from, to, getAllLegalMoves) ==
  LET piece == gameState.board[from]
      filtered == LegalFilter(gameState, from, getPotentialMoves(gameState.board, from), {})
  IN  IF piece = NoPiece \/ piece.color # gameState.currentPlayer
      THEN [given |-> gameState, returned |-> {}]
      ELSE IF to # NullPos /\ ~getAllLegalMoves
      THEN [given |-> filtered.given, returned |-> {m \in filtered.returned : m = to}]
      ELSE filtered

\* isKingInCheck: the scan works on { ...gameState, currentPlayer }, which
\* getPotentialMoves only reads.
isKingInCheckCall(gameState, kingColor) ==
  LET h == WriteTop(SpreadCopy(gameState), "currentPlayer", Opp(kingColor))
      kingPosition == FindKing(gameState.board, kingColor)
  IN  [given |-> h.given,
       returned |-> IF kingPosition = NullPos THEN FALSE
                    ELSE Attacked(h.fresh.board, h.fresh.currentPlayer, kingPosition)]

\* The first loop of isCheckmate and isStalemate over the cells still to
\* visit: isLegalMove on { ...gameState, currentPlayer: playerColor }.
RECURSIVE AnyLegalMoveCall(_, _, _)
AnyLegalMoveCall(gameState, playerColor, todo) ==
  IF todo = {} THEN [given |-> gameState, returned |-> FALSE]
  ELSE LET p == CHOOSE c \in todo : \A q \in todo : ScanBefore(c, q)
           h == WriteTop(SpreadCopy(gameState), "currentPlayer", playerColor)
           call == IF gameState.board[p].color = playerColor
                   THEN isLegalMoveCall(h.fresh, p, NullPos, TRUE)
                   ELSE [given |-> h.fresh, returned |-> {}]
           after == SeenThrough(gameState, call.given)
       IN  IF call.returned # {} THEN [given |-> after, returned |-> TRUE]
           ELSE AnyLegalMoveCall(after, playerColor, todo \ {p})

\* The drop loop of isCheckmate over the (type, cell) pairs still to try:
\* the drop is simulated in a copy.
RECURSIVE AnyDropEscapeCall(_, _, _)
AnyDropEscapeCall(gameState, playerColor, todo) ==
  IF todo = {} THEN [given |-> gameState, returned |-> FALSE]
  ELSE LET d == CHOOSE c \in todo : TRUE
           h == WriteNested(JsonCopy(gameState), "board", d[2], Pc(d[1], playerColor))
           check == isKingInCheckCall(h.fresh, playerColor)
       IN  IF ~check.returned THEN [given |-> h.given, returned |-> TRUE]
           ELSE AnyDropEscapeCall(h.given, playerColor, todo \ {d})

isCheckmateCall(gameState, playerColor) ==
  LET check == isKingInCheckCall(gameState, playerColor)
      moves == AnyLegalMoveCall(check.given, playerColor, Pos)
      drops == AnyDropEscapeCall(moves.given, playerColor,
                                 DropCandidates(moves.given, playerColor))
  IN  IF ~check.returned THEN [given |-> check.given, returned |-> FALSE]
      ELSE IF moves.returned THEN [given |-> moves.given, returned |-> FALSE]
      ELSE [given |-> drops.given, returned |-> ~drops.returned]

isStalemateCall(gameState, playerColor) ==
  LET check == isKingInCheckCall(gameState, playerColor)
      moves == AnyLegalMoveCall(check.given, playerColor, Pos)
  IN  IF check.returned THEN [given |-> check.given, returned |-> FALSE]
      ELSE IF moves.returned THEN [given |-> moves.given, returned |-> FALSE]
      ELSE [given |-> moves.given,
            returned |-> DropCandidates(moves.given, playerColor) = {}]

(***************************************************************************)
(* State                                                                   *)
(***************************************************************************)
VARIABLES
  gameState,   \* the match state of a client that moves only where
               \* isLegalMove allows (chess-board.tsx, handleSquareClick)
  gameRooms,   \* server: roomId -> [players, gameState, isGameStarted]
  playerRooms, \* server: playerId -> roomId
  last,        \* the last engine call or game_move message: its inputs, the
               \* state it was given, what it returned, whether a
               \* game_state_update was broadcast
  line,        \* the recorded game being replayed
  idx,         \* how many of its plies have been played
  ply,         \* calls / messages handled after leaving the recorded game
  gameOver,    \* client: {isOver, winner, reason} (chess-board.tsx)
  pending,     \* client: the game end detection effect has yet to run for
               \* the gameState now rendered
  server,      \* the server program that is running: "route" (the
               \* websocket route handler with its room manager) or
               \* "standalone" (server/websocket-server.ts); "none" for
               \* the client playing alone
  timers,      \* server: the setTimeout callbacks that have yet to run
  received,    \* playerId -> the gameState of the last game_state_update
               \* sent to that player's open connection, which the client
               \* adopts (chess-board.tsx, game_state_update handler)
  pendingGameState, \* client: useState of pendingGameState (NullState: null)
  animation,        \* client: a move animation is set
  captureAnimation, \* client: a capture animation is set
  inbox,       \* the game_state_update messages on their way to the client
  ws,                \* WebSocketClient.ws: 0 (null) or the index, in sockets,
                     \* of the WebSocket object it refers to
  sockets,           \* the WebSocket objects created so far, by readyState:
                     \* "CONNECTING", "OPEN", "CLOSING" (closed cleanly, close
                     \* event not yet dispatched), "FAILING" (failed, error and
                     \* close events not yet dispatched), "CLOSED"
  reconnectAttempts, \* WebSocketClient.reconnectAttempts
  isConnecting,      \* WebSocketClient.isConnecting
  reconnectTimers,   \* the reconnect setTimeout callbacks that have yet to run
  connectTimeouts,   \* the sockets whose 10 s connection timeout is pending
  disconnectCalled,  \* disconnect() has been called
  connectionLost,    \* calls of the connection_lost handler
  reconnectsMade     \* connections opened by reconnect timers since the last
                     \* onopen

wsVars == <<ws, sockets, reconnectAttempts, isConnecting, reconnectTimers, connectTimeouts,
            disconnectCalled, connectionLost, reconnectsMade>>

gameVars == <<gameState, gameRooms, playerRooms, last, line, idx, ply, gameOver, pending, server,
              timers, received, pendingGameState, animation, captureAnimation, inbox>>

vars == <<gameVars, wsVars>>

\* Calls (accepted or refused) explored after the recorded plies.
MaxPly == 1

Mv(from, to) == [kind |-> "move", from |-> from, to |-> to, pieceType |-> "NONE"]

Dr(pieceType, to) == [kind |-> "drop", from |-> DropFrom, to |-> to, pieceType |-> pieceType]

\* Recorded games from the starting position.  A recorded ply is an input
\* like any other: it is played only if isLegalMove / dropPiece accepts it.
Lines ==
  << \* 1: a knight drop mates the WHITE king
     << Mv(<<0, 0>>, <<1, 1>>), Mv(<<4, 5>>, <<3, 5>>), Mv(<<0, 2>>, <<1, 4>>),
        Mv(<<5, 4>>, <<1, 4>>), Mv(<<1, 1>>, <<0, 2>>), Dr("KNIGHT", <<2, 3>>) >>,
     \* 2: WHITE answers a knight check with a drop elsewhere, loses the king;
     \*    BLACK drops the captured king and then moves the other one
     << Mv(<<0, 0>>, <<1, 1>>), Mv(<<5, 2>>, <<3, 0>>), Mv(<<0, 3>>, <<3, 0>>),
        Mv(<<5, 3>>, <<3, 2>>), Dr("BISHOP", <<0, 0>>), Mv(<<3, 2>>, <<1, 1>>),
        Mv(<<0, 1>>, <<1, 1>>), Dr("KING", <<2, 1>>), Mv(<<0, 2>>, <<1, 4>>),
        Mv(<<5, 5>>, <<4, 4>>) >>,
     \* 3: WHITE takes every BLACK piece and stalemates the lone king
     << Mv(<<0, 0>>, <<1, 1>>), Mv(<<5, 2>>, <<3, 0>>), Mv(<<0, 3>>, <<3, 0>>),
        Mv(<<5, 3>>, <<4, 1>>), Mv(<<3, 0>>, <<4, 1>>), Mv(<<5, 4>>, <<5, 2>>),
        Mv(<<4, 1>>, <<5, 2>>), Mv(<<4, 5>>, <<3, 5>>), Mv(<<0, 1>>, <<0, 0>>),
        Mv(<<3, 5>>, <<2, 5>>), Mv(<<5, 2>>, <<2, 5>>), Mv(<<5, 5>>, <<4, 4>>),
        Mv(<<0, 2>>, <<2, 1>>), Mv(<<4, 4>>, <<5, 3>>), Mv(<<0, 0>>, <<0, 4>>) >>,
     \* 4: both pawns run; the WHITE pawn reaches row 5
     << Mv(<<1, 0>>, <<2, 0>>), Mv(<<4, 5>>, <<3, 5>>), Mv(<<2, 0>>, <<3, 0>>),
        Mv(<<3, 5>>, <<2, 5>>), Mv(<<3, 0>>, <<4, 0>>), Mv(<<2, 5>>, <<1, 5>>),
        Mv(<<4, 0>>, <<5, 0>>) >>,
     \* 5: a dropped BLACK rook checks the WHITE king along row 0; WHITE has
     \*    no legal move and holds a knight
     << Mv(<<0, 1>>, <<1, 1>>), Mv(<<5, 3>>, <<3, 2>>), Mv(<<0, 2>>, <<2, 3>>),
        Mv(<<3, 2>>, <<1, 1>>), Mv(<<2, 3>>, <<1, 1>>), Dr("ROOK", <<0, 2>>) >>,
     \* 6: the lone BLACK king takes a bishop and is left without a move,
     \*    not in check, holding the bishop
     << Mv(<<0, 0>>, <<1, 1>>), Mv(<<5, 2>>, <<3, 0>>), Mv(<<0, 3>>, <<3, 0>>),
        Mv(<<5, 3>>, <<4, 1>>), Mv(<<3, 0>>, <<4, 1>>), Mv(<<5, 4>>, <<5, 2>>),
        Mv(<<4, 1>>, <<5, 2>>), Mv(<<4, 5>>, <<3, 5>>), Mv(<<0, 1>>, <<0, 0>>),
        Mv(<<3, 5>>, <<2, 5>>), Mv(<<5, 2>>, <<2, 5>>), Mv(<<5, 5>>, <<4, 4>>),
        Mv(<<0, 0>>, <<0, 1>>), Mv(<<4, 4>>, <<3, 5>>), Mv(<<0, 2>>, <<2, 3>>),
        Mv(<<3, 5>>, <<2, 5>>), Mv(<<0, 1>>, <<0, 4>>) >>,
     \* 7: a WHITE knight leaves row 5 with check and uncovers the rook's
     \*    check along it; BLACK holds a bishop and has no escape
     << Mv(<<0, 0>>, <<1, 1>>), Mv(<<5, 4>>, <<1, 4>>), Mv(<<0, 3>>, <<1, 4>>),
        Mv(<<5, 3>>, <<3, 2>>), Mv(<<1, 4>>, <<3, 2>>), Mv(<<5, 2>>, <<4, 1>>),
        Dr("ROOK", <<5, 2>>), Mv(<<5, 5>>, <<4, 4>>), Dr("KNIGHT", <<5, 3>>),
        Mv(<<4, 1>>, <<3, 2>>), Mv(<<0, 2>>, <<2, 3>>), Mv(<<4, 4>>, <<5, 5>>),
        Mv(<<5, 3>>, <<3, 4>>) >>,
     \* 8: as 2 until the WHITE king is taken; the dropped WHITE bishop takes
     \*    the knight and attacks the BLACK king on (5,5); BLACK drops the
     \*    captured king on (0,4)
     << Mv(<<0, 0>>, <<1, 1>>), Mv(<<5, 2>>, <<3, 0>>), Mv(<<0, 3>>, <<3, 0>>),
        Mv(<<5, 3>>, <<3, 2>>), Dr("BISHOP", <<0, 0>>), Mv(<<3, 2>>, <<1, 1>>),
        Mv(<<0, 0>>, <<1, 1>>), Dr("KING", <<0, 4>>) >>
  >>

\* Cells used for inputs the engine is expected to refuse.
Corners == {<<0, 0>>, <<0, 5>>, <<5, 0>>, <<5, 5>>}

Flip(p) == <<5 - p[1], 5 - p[2]>>

NoOp ==
  [op |-> "none", sender |-> "NONE", kind |-> "NONE", from |-> NullPos,
   to |-> NullPos, pieceType |-> "NONE", before |-> NullState,
   result |-> NullState, broadcast |-> FALSE]

\* The record of an engine call made by the client.
Call(op, from, to, pieceType, before, result) ==
  [op |-> op, sender |-> "NONE", kind |-> "NONE", from |-> from, to |-> to,
   pieceType |-> pieceType, before |-> before, result |-> result,
   broadcast |-> FALSE]

NoRooms == [r \in {} |-> NullState]

\* useState of gameOver: {isOver: false, winner: null, reason: ""}.
NoGameOver == [isOver |-> FALSE, winner |-> "NONE", reason |-> ""]

\* The state after the modules are loaded: no rooms, the client's match at
\* the starting position.
Start ==
  /\ gameState = getInitialGameState
  /\ gameRooms = NoRooms
  /\ playerRooms = NoRooms
  /\ last = NoOp
  /\ idx = 0
  /\ ply = 0
  /\ gameOver = NoGameOver
  /\ pending = TRUE
  /\ timers = {}
  /\ received = NoRooms
  /\ pendingGameState = NullState
  /\ animation = FALSE
  /\ captureAnimation = FALSE
  /\ inbox = <<>>
  /\ ws = 0
  /\ sockets = <<>>
  /\ reconnectAttempts = 0
  /\ isConnecting = FALSE
  /\ reconnectTimers = 0
  /\ connectTimeouts = {}
  /\ disconnectCalled = FALSE
  /\ connectionLost = 0
  /\ reconnectsMade = 0

\* The recorded games replayed through the server.
ServerLines == {1, 2, 4}

Init ==
  /\ Start
  /\ \/ server = "route" /\ line \in ServerLines
     \/ server = "standalone" /\ line = 1

InitPlay == Start /\ line \in 1..Len(Lines) /\ server = "none"

(***************************************************************************)
(* A match played through the engine by a client that validates            *)
(* (src/app/components/chess-board.tsx, handleSquareClick)                 *)
(***************************************************************************)
\* "Making moves": makeMove is called only when isLegalMove(gameState,
\* selectedPosition, position) is non-empty.
ApplyMove(from, to) ==
  /\ ~pending
  /\ ~gameOver.isOver
  /\ isLegalMove(gameState, from, to, FALSE) # {}
  /\ gameState' = makeMove(gameState, from, to)
  /\ last' = Call("makeMove", from, to, "NONE", gameState, gameState')
  /\ pending' = TRUE
  /\ UNCHANGED gameOver

\* A drop: dropPiece decides; on null the match state stays as it was.
ApplyDrop(pieceType, to) ==
  LET result == dropPiece(gameState, pieceType, to)
  IN  /\ ~pending
      /\ ~gameOver.isOver
      /\ gameState' = IF result = NullState THEN gameState ELSE result
      /\ last' = Call("dropPiece", DropFrom, to, pieceType, gameState, result)
      /\ pending' = (result # NullState)
      /\ UNCHANGED gameOver

ReplayMove ==
  /\ ply = 0
  /\ idx < Len(Lines[line])
  /\ Lines[line][idx + 1].kind = "move"
  /\ ApplyMove(Lines[line][idx + 1].from, Lines[line][idx + 1].to)
  /\ idx' = idx + 1
  /\ UNCHANGED <<wsVars, server, pendingGameState, animation, captureAnimation, inbox, timers, received, gameRooms, playerRooms, line, ply>>

ReplayDrop ==
  /\ ply = 0
  /\ idx < Len(Lines[line])
  /\ Lines[line][idx + 1].kind = "drop"
  /\ dropPiece(gameState, Lines[line][idx + 1].pieceType, Lines[line][idx + 1].to) # NullState
  /\ ApplyDrop(Lines[line][idx + 1].pieceType, Lines[line][idx + 1].to)
  /\ idx' = idx + 1
  /\ UNCHANGED <<wsVars, server, pendingGameState, animation, captureAnimation, inbox, timers, received, gameRooms, playerRooms, line, ply>>

PlayMove ==
  /\ ply < MaxPly
  /\ \E from \in Pos : \E to \in getPotentialMoves(gameState.board, from) :
       ApplyMove(from, to)
  /\ ply' = ply + 1
  /\ UNCHANGED <<wsVars, server, pendingGameState, animation, captureAnimation, inbox, timers, received, gameRooms, playerRooms, line, idx>>

PlayDrop ==
  /\ ply < MaxPly
  /\ \E pieceType \in PieceTypes, to \in Pos :
       /\ dropPiece(gameState, pieceType, to) # NullState
       /\ ApplyDrop(pieceType, to)
  /\ ply' = ply + 1
  /\ UNCHANGED <<wsVars, server, pendingGameState, animation, captureAnimation, inbox, timers, received, gameRooms, playerRooms, line, idx>>

\* A drop the engine refuses: nothing but the record of the call changes.
RefusedDrop ==
  /\ ply < MaxPly
  /\ \E pieceType \in PieceTypes, to \in Corners :
       /\ dropPiece(gameState, pieceType, to) = NullState
       /\ ApplyDrop(pieceType, to)
  /\ ply' = ply + 1
  /\ UNCHANGED <<wsVars, server, pendingGameState, animation, captureAnimation, inbox, timers, received, gameRooms, playerRooms, line, idx>>

\* findKingPosition of the board component: the first king in scan order.
findKingPosition(state, color) == FindKing(state.board, color)

\* One run of the "Game end detection" effect with a game that is not over:
\* the state and the gameOver value it sets (both as they were when it sets
\* nothing).
gameEndStalemateIsDraw(state, over) ==
  LET kingInCheck == isKingInCheck(state, state.currentPlayer)
      kingPosition ==
        IF kingInCheck THEN findKingPosition(state, state.currentPlayer) ELSE NullPos
  IN  IF kingPosition # state.checkedKingPosition
      THEN [gameState |-> [state EXCEPT !.checkedKingPosition = kingPosition],
            gameOver |-> over]
      ELSE IF isCheckmate(state, state.currentPlayer)
      THEN [gameState |-> state,
            gameOver |-> [isOver |-> TRUE, winner |-> Opp(state.currentPlayer),
                          reason |-> "Checkmate"]]
      ELSE IF isStalemate(state, state.currentPlayer)
      THEN [gameState |-> state,
            gameOver |-> [isOver |-> TRUE, winner |-> "NONE", reason |-> "Stalemate"]]
      ELSE [gameState |-> state, gameOver |-> over]

gameEndDetection(state, over) ==
  LET kingInCheck == isKingInCheck(state, state.currentPlayer)
      kingPosition ==
        IF kingInCheck THEN findKingPosition(state, state.currentPlayer) ELSE NullPos
  IN  IF kingPosition # state.checkedKingPosition
      THEN [gameState |-> [state EXCEPT !.checkedKingPosition = kingPosition],
            gameOver |-> over]
      ELSE IF isCheckmate(state, state.currentPlayer)
      THEN [gameState |-> state,
            gameOver |-> [isOver |-> TRUE, winner |-> Opp(state.currentPlayer),
                          reason |-> "Checkmate"]]
      ELSE IF isStalemate(state, state.currentPlayer)
      THEN [gameState |-> state,
            gameOver |-> [isOver |-> TRUE, winner |-> Opp(state.currentPlayer),
                          reason |-> "Stalemate"]]
      ELSE [gameState |-> state, gameOver |-> over]

\* The record of a run of the effect.
Detected(before, result) ==
  [op |-> "gameEndDetection", sender |-> "NONE", kind |-> "NONE", from |-> NullPos,
   to |-> NullPos, pieceType |-> "NONE", before |-> before, result |-> result,
   broadcast |-> FALSE]

\* The effect runs after every render with a new gameState or a new
\* gameOver.isOver; with the game over it returns at once.
GameEndDetection ==
  /\ pending
  /\ LET run == IF gameOver.isOver
                THEN [gameState |-> gameState, gameOver |-> gameOver]
                ELSE gameEndDetection(gameState, gameOver)
     IN  /\ gameState' = run.gameState
         /\ gameOver' = run.gameOver
         /\ pending' = (run.gameState # gameState \/ run.gameOver.isOver # gameOver.isOver)
         /\ last' = Detected(gameState, run.gameState)
  /\ UNCHANGED <<wsVars, server, pendingGameState, animation, captureAnimation, inbox, timers, received, gameRooms, playerRooms, line, idx, ply>>

NextPlay ==
  ReplayMove \/ ReplayDrop \/ PlayMove \/ PlayDrop \/ RefusedDrop \/ GameEndDetection

SpecPlay == InitPlay /\ [][NextPlay]_vars

(***************************************************************************)
(* Server: room manager and move arbiter (src/unnamed/part_003)            *)
(***************************************************************************)
PlayerOrder == <<"p1", "p2", "p3">>

PlayerIds == {PlayerOrder[k] : k \in 1..Len(PlayerOrder)}

ServerPlayer(id, color, isBot) == [id |-> id, color |-> color, isBot |-> isBot]

NoRoomId == 0

\* generateId(): an id no room has or had that something still refers to.
NewRoomId ==
  LET used == DOMAIN gameRooms \cup {t.roomId : t \in timers}
                \cup {playerRooms[q] : q \in DOMAIN playerRooms}
  IN  IF used = {} THEN 1
      ELSE 1 + CHOOSE r \in used : \A q \in used : q <= r

\* "Look for an available room": the first room, in insertion order, with
\* one player and no game started (and younger than five minutes: fresh).
AvailableRoomStartedToo(fresh) ==
  LET open == {r \in DOMAIN gameRooms :
                 /\ Len(gameRooms[r].players) = 1
                 /\ fresh}
  IN  IF open = {} THEN NoRoomId
      ELSE CHOOSE r \in open : \A q \in open : r <= q

AvailableRoom(fresh) ==
  LET open == {r \in DOMAIN gameRooms :
                 /\ Len(gameRooms[r].players) = 1
                 /\ ~gameRooms[r].isGameStarted
                 /\ fresh}
  IN  IF open = {} THEN NoRoomId
      ELSE CHOOSE r \in open : \A q \in open : r <= q

InRoom(room, playerId) == \E i \in 1..Len(room.players) : room.players[i].id = playerId

\* findOrCreateRoom: the maps after the call and the id of the room returned.
findOrCreateRoom(playerId, fresh) ==
  IF /\ playerId \in DOMAIN playerRooms
     /\ playerRooms[playerId] \in DOMAIN gameRooms
     /\ InRoom(gameRooms[playerRooms[playerId]], playerId)
  THEN [gameRooms |-> gameRooms, playerRooms |-> playerRooms,
        roomId |-> playerRooms[playerId]]
  ELSE IF AvailableRoom(fresh) # NoRoomId
  THEN [gameRooms |->
          [gameRooms EXCEPT ![AvailableRoom(fresh)].players =
             Append(@, ServerPlayer(playerId, "BLACK", FALSE))],
        playerRooms |->
          [q \in DOMAIN playerRooms \cup {playerId} |->
             IF q = playerId THEN AvailableRoom(fresh) ELSE playerRooms[q]],
        roomId |-> AvailableRoom(fresh)]
  ELSE [gameRooms |->
          [r \in DOMAIN gameRooms \cup {NewRoomId} |->
             IF r = NewRoomId
             THEN [players |-> <<ServerPlayer(playerId, "WHITE", FALSE)>>,
                   gameState |-> getInitialGameState,
                   isGameStarted |-> FALSE]
             ELSE gameRooms[r]],
        playerRooms |->
          [q \in DOMAIN playerRooms \cup {playerId} |->
             IF q = playerId THEN NewRoomId ELSE playerRooms[q]],
        roomId |-> NewRoomId]

\* startGame(roomId) on the given room map.
startGame(rooms, roomId) ==
  IF roomId \notin DOMAIN rooms \/ Len(rooms[roomId].players) # 2 THEN rooms
  ELSE [rooms EXCEPT ![roomId].isGameStarted = TRUE]

\* ws.send of a game_state_update carrying `state` on the open connections
\* of the players in `to`; each client's handler adopts it (setGameState).
Deliver(recv, to, state) ==
  [q \in DOMAIN recv |-> IF q \in to THEN state ELSE recv[q]]

\* handleConnection / playerSockets.set: the player's connection is open;
\* nothing has been sent on a new one.
Connect(recv, playerId) ==
  [q \in DOMAIN recv \cup {playerId} |-> IF q \in DOMAIN recv THEN recv[q] ELSE NullState]

\* broadcastToRoom(roomId, message): the loop runs over all of connections;
\* roomId is not used.
broadcastToRoom(recv, roomId, state) == Deliver(recv, DOMAIN recv, state)

\* sendToPlayer(playerId, message): the connection of that player, if open.
sendToPlayer(recv, playerId, state) == Deliver(recv, {playerId}, state)

\* A callback handed to setTimeout: the matchmaking timeout of a waiting
\* player, or the bot's turn in a room.
Timer(kind, roomId, playerId) == [kind |-> kind, roomId |-> roomId, playerId |-> playerId]

\* handleJoinMatchmaking: a full room is started at once; for a player left
\* waiting the 60 s timeout "for bot" is set.
handleJoinMatchmaking(playerId, fresh) ==
  LET found == findOrCreateRoom(playerId, fresh)
  IN  /\ gameRooms' =
           IF Len(found.gameRooms[found.roomId].players) = 2
           THEN startGame(found.gameRooms, found.roomId)
           ELSE found.gameRooms
      /\ playerRooms' = found.playerRooms
      /\ timers' =
           IF Len(found.gameRooms[found.roomId].players) = 2 THEN timers
           ELSE timers \cup {Timer("matchmaking", found.roomId, playerId)}
      /\ received' =
           IF Len(found.gameRooms[found.roomId].players) = 2
           THEN broadcastToRoom(Connect(received, playerId), found.roomId,
                                found.gameRooms[found.roomId].gameState)
           ELSE Connect(received, playerId)

\* getRoomByPlayer: the room id, or NoRoomId for null.
getRoomByPlayer(playerId) ==
  IF playerId \in DOMAIN playerRooms /\ playerRooms[playerId] \in DOMAIN gameRooms
  THEN playerRooms[playerId]
  ELSE NoRoomId

\* room.players.find((p) => p.id === playerId).color, "NONE" when not found.
ColorIn(room, playerId) ==
  IF InRoom(room, playerId)
  THEN room.players[CHOOSE i \in 1..Len(room.players) :
                      /\ room.players[i].id = playerId
                      /\ \A j \in 1..(i - 1) : room.players[j].id # playerId].color
  ELSE "NONE"

\* handleGameMove without the "Verify it's the player's turn" comparison.
MayActAnyTurn(roomId, playerId) ==
  /\ roomId # NoRoomId
  /\ gameRooms[roomId].isGameStarted
  /\ InRoom(gameRooms[roomId], playerId)

\* The two early returns of handleGameMove: the sender has a started room,
\* is one of its players and it is that player's turn.
MayAct(roomId, playerId) ==
  /\ roomId # NoRoomId
  /\ gameRooms[roomId].isGameStarted
  /\ InRoom(gameRooms[roomId], playerId)
  /\ gameRooms[roomId].gameState.currentPlayer = ColorIn(gameRooms[roomId], playerId)

\* "Execute the move": what handleGameMove computes as newGameState.
ExecuteMove(state, move) ==
  IF move.kind = "move" /\ move.from # NullPos
  THEN makeMove(state, move.from, move.to)
  ELSE IF move.kind = "drop" /\ move.pieceType # "NONE"
  THEN dropPiece(state, move.pieceType, move.to)
  ELSE NullState

\* room.players.find((p) => p.id !== playerId): its id when it is a bot of
\* the given color, "NONE" otherwise.
BotOpponent(room, playerId, color) ==
  LET others == {i \in 1..Len(room.players) : room.players[i].id # playerId}
      first == CHOOSE i \in others : \A j \in others : i <= j
  IN  IF others # {} /\ room.players[first].isBot /\ room.players[first].color = color
      THEN room.players[first].id
      ELSE "NONE"

\* The record of a handled game_move message.
Handled(playerId, move, before, result, broadcast) ==
  [op |-> "game_move", sender |-> playerId, kind |-> move.kind,
   from |-> move.from, to |-> move.to, pieceType |-> move.pieceType,
   before |-> before, result |-> result, broadcast |-> broadcast]

handleGameMove(playerId, move) ==
  LET roomId == getRoomByPlayer(playerId)
      state == IF roomId = NoRoomId THEN NullState ELSE gameRooms[roomId].gameState
      newGameState ==
        IF MayAct(roomId, playerId) THEN ExecuteMove(state, move) ELSE NullState
  IN  /\ gameRooms' =
           IF newGameState \notin {NullState, Thrown}
           THEN [gameRooms EXCEPT ![roomId].gameState = newGameState]
           ELSE gameRooms
      /\ last' = Handled(playerId, move, state, newGameState,
                         newGameState \notin {NullState, Thrown})
      /\ timers' =
           IF /\ newGameState \notin {NullState, Thrown}
              /\ BotOpponent(gameRooms[roomId], playerId, newGameState.currentPlayer) # "NONE"
           THEN timers \cup {Timer("bot_move", roomId,
                                   BotOpponent(gameRooms[roomId], playerId,
                                               newGameState.currentPlayer))}
           ELSE timers
      /\ received' =
           IF newGameState \notin {NullState, Thrown}
           THEN broadcastToRoom(received, roomId, newGameState)
           ELSE received
      /\ UNCHANGED playerRooms

(***************************************************************************)
(* The bot (src/lib/server/bot-ai.ts)                                      *)
(***************************************************************************)
PIECE_VALUES(type) ==
  CASE type = "PAWN" -> 1
    [] type = "KNIGHT" -> 3
    [] type = "BISHOP" -> 3
    [] type = "ROOK" -> 5
    [] type = "QUEEN" -> 9
    [] type = "KING" -> 100

Abs(n) == IF n < 0 THEN -n ELSE n

\* Twice Math.abs(to.row - 2.5) + Math.abs(to.col - 2.5); the scores are
\* kept as twice their value so that they stay integers.
CenterDistance2(to) == Abs(2 * to[1] - 5) + Abs(2 * to[2] - 5)

\* Twice the score of evaluateMove.
evaluateMove(state, from, to, botColor) ==
  LET movingPiece == state.board[from]
      targetPiece == state.board[to]
  IN  (IF targetPiece # NoPiece /\ targetPiece.color # botColor
       THEN 2 * PIECE_VALUES(targetPiece.type) * 10 ELSE 0)
      + (12 - CenterDistance2(to)) \div 2
      + (IF movingPiece.type = "PAWN"
            /\ \/ (botColor = "BLACK" /\ to[1] < from[1])
               \/ (botColor = "WHITE" /\ to[1] > from[1])
         THEN 4 ELSE 0)
      - (IF movingPiece.type = "KING" THEN 2 ELSE 0)

\* Twice the score of evaluateDrop.
evaluateDrop(state, to, pieceType, botColor) ==
  2 * PIECE_VALUES(pieceType)
  + (12 - CenterDistance2(to)) \div 2
  + (IF pieceType # "PAWN"
        /\ \/ (botColor = "BLACK" /\ to[1] < 3)
           \/ (botColor = "WHITE" /\ to[1] > 2)
     THEN 4 ELSE 0)

\* The actions getBestMove can return: allMoves holds every legal move of
\* every piece of botColor; after the sort by descending score the result is
\* allMoves[0] or, with Math.random() < 0.3, one of the first
\* min(3, allMoves.length). Equal scores keep their insertion order, which
\* the sets of this model leave open: every move with fewer than three
\* strictly better ones is a possible result.
getBestMove(state, botColor) ==
  LET allMoves ==
        UNION {{Mv(from, to) : to \in isLegalMove(state, from, NullPos, TRUE)} :
                 from \in {p \in Pos : state.board[p].color = botColor}}
      score(m) == evaluateMove(state, m.from, m.to, botColor)
  IN  {m \in allMoves :
         Cardinality({n \in allMoves : score(n) > score(m)}) < 3}

\* The actions getBestDrop can return: availableDrops holds, for every piece
\* type with a positive count in botColor's hand, every cell for which
\* dropPiece(state, pieceType, to) returns a state; the result is one of
\* the first min(3, length) after the sort by descending score.
getBestDrop(state, botColor) ==
  LET hand == HandOf(state, botColor)
      availableDrops ==
        {Dr(pieceType, to) : pieceType \in {t \in PieceTypes : hand[t] > 0},
                             to \in Pos}
      accepted == {d \in availableDrops :
                     dropPiece(state, d.pieceType, d.to) # NullState}
      score(d) == evaluateDrop(state, d.to, d.pieceType, botColor)
  IN  {d \in accepted :
         Cardinality({e \in accepted : score(e) > score(d)}) < 3}

\* null returned by getBotMove.
NoAction == [kind |-> "none", from |-> NullPos, to |-> NullPos, pieceType |-> "NONE"]

\* The values getBotMove can return over all of its random choices.
getBotMove(state, botColor) ==
  IF getBestMove(state, botColor) # {} THEN getBestMove(state, botColor)
  ELSE IF getBestDrop(state, botColor) # {} THEN getBestDrop(state, botColor)
  ELSE {NoAction}

(***************************************************************************)
(* Messages reaching the server                                            *)
(***************************************************************************)
Promo(pieceType, to) ==
  [kind |-> "promotion", from |-> NullPos, to |-> to, pieceType |-> pieceType]

\* Targets outside the grid: a column past the end of a row, a row past the
\* last row.
OffBoard == {<<2, 6>>, <<6, 2>>}

\* The game_move bodies tried on a room whose board is `board`: every move
\* that follows some piece's movement pattern (either color, self-checking
\* or not), a jump across the board from each corner, drops on the corner
\* cells and outside the grid, and promotion choices on the corner cells.
Bodies(board) ==
  UNION {{Mv(from, to) :
            to \in getPotentialMoves(board, from)
                     \cup (IF from \in Corners THEN {Flip(from)} ELSE {})} :
           from \in Pos}
  \cup {Dr(t, to) : t \in PieceTypes, to \in Corners \cup OffBoard}
  \cup {Promo(t, to) : t \in {"QUEEN", "KNIGHT"}, to \in Corners}

\* The next player to join for the first time; ids are interchangeable, so
\* they join in the order of PlayerOrder.
Joined == {p \in PlayerIds : \E r \in DOMAIN gameRooms : InRoom(gameRooms[r], p)}

NextNewPlayer ==
  {PlayerOrder[k] :
     k \in {n \in 1..Len(PlayerOrder) :
              /\ PlayerOrder[n] \notin Joined
              /\ \A j \in 1..(n - 1) : PlayerOrder[j] \in Joined}}

JoinMatchmaking ==
  /\ server = "route"
  /\ \E playerId \in NextNewPlayer : handleJoinMatchmaking(playerId, TRUE)
  /\ UNCHANGED <<wsVars, server, pendingGameState, animation, captureAnimation, inbox, gameOver, pending, gameState, last, line, idx, ply>>

\* The board of the first started room (the match the recorded game is
\* replayed in), or of the starting position before any match started.
Started == {r \in DOMAIN gameRooms : gameRooms[r].isGameStarted}

Match == IF Started = {} THEN NoRoomId ELSE CHOOSE r \in Started : \A q \in Started : r <= q

MatchState == IF Match = NoRoomId THEN getInitialGameState ELSE gameRooms[Match].gameState

\* The player of the match whose turn it is.
Mover ==
  {p \in PlayerIds : Match # NoRoomId /\ MayAct(Match, p) /\ getRoomByPlayer(p) = Match}

\* The recorded ply sent by the player to move; the sending client has
\* validated it (handleSquareClick).
ReplayMessage ==
  /\ server = "route"
  /\ ply = 0
  /\ idx < Len(Lines[line])
  /\ \E playerId \in Mover :
       /\ \/ /\ Lines[line][idx + 1].kind = "move"
             /\ isLegalMove(MatchState, Lines[line][idx + 1].from,
                            Lines[line][idx + 1].to, FALSE) # {}
          \/ /\ Lines[line][idx + 1].kind = "drop"
             /\ dropPiece(MatchState, Lines[line][idx + 1].pieceType,
                          Lines[line][idx + 1].to) # NullState
       /\ handleGameMove(playerId, Lines[line][idx + 1])
  /\ idx' = idx + 1
  /\ UNCHANGED <<wsVars, server, pendingGameState, animation, captureAnimation, inbox, gameOver, pending, gameState, line, ply>>

\* Any game_move message from any player id.
GameMove ==
  /\ server = "route"
  /\ ply < MaxPly
  /\ \E playerId \in PlayerIds, move \in Bodies(MatchState.board) :
       handleGameMove(playerId, move)
  /\ ply' = ply + 1
  /\ UNCHANGED <<wsVars, server, pendingGameState, animation, captureAnimation, inbox, gameOver, pending, gameState, line, idx>>

(***************************************************************************)
(* The standalone server (src/server/websocket-server.ts)                  *)
(***************************************************************************)
\* findOrCreateRoom of the standalone server: the room map after the call.
\* getInitialGameState of the standalone server, its own copy of the
\* starting position: an empty 6x6 board, then ten assignments.
standaloneGetInitialGameState ==
  [board |->
     (<<0, 0>> :> Pc("KING", "WHITE") @@ <<0, 1>> :> Pc("ROOK", "WHITE")
        @@ <<0, 2>> :> Pc("KNIGHT", "WHITE") @@ <<0, 3>> :> Pc("BISHOP", "WHITE")
        @@ <<1, 0>> :> Pc("PAWN", "WHITE")
        @@ <<5, 5>> :> Pc("KING", "BLACK") @@ <<5, 4>> :> Pc("ROOK", "BLACK")
        @@ <<5, 3>> :> Pc("KNIGHT", "BLACK") @@ <<5, 2>> :> Pc("BISHOP", "BLACK")
        @@ <<4, 5>> :> Pc("PAWN", "BLACK")
        @@ EmptyBoard),
   currentPlayer |-> "WHITE",
   player1Hand |-> [KING |-> 0, QUEEN |-> 0, ROOK |-> 0, BISHOP |-> 0,
                    KNIGHT |-> 0, PAWN |-> 0],
   player2Hand |-> [KING |-> 0, QUEEN |-> 0, ROOK |-> 0, BISHOP |-> 0,
                    KNIGHT |-> 0, PAWN |-> 0],
   lastMove |-> NoMove,
   checkedKingPosition |-> NullPos]

standaloneFindOrCreateRoom(playerId, fresh) ==
  IF AvailableRoom(fresh) # NoRoomId
  THEN [gameRooms EXCEPT ![AvailableRoom(fresh)].players =
          Append(@, ServerPlayer(playerId, "BLACK", FALSE))]
  ELSE [r \in DOMAIN gameRooms \cup {NewRoomId} |->
          IF r = NewRoomId
          THEN [players |-> <<ServerPlayer(playerId, "WHITE", FALSE)>>,
                gameState |-> standaloneGetInitialGameState,
                isGameStarted |-> FALSE]
          ELSE gameRooms[r]]

\* The room returned by that call: the one the player has just been put in.
standaloneRoomOf(rooms, playerId) ==
  IF \E r \in DOMAIN rooms : InRoom(rooms[r], playerId)
  THEN CHOOSE r \in DOMAIN rooms :
         /\ InRoom(rooms[r], playerId)
         /\ \A q \in DOMAIN rooms : InRoom(rooms[q], playerId) => r <= q
  ELSE NoRoomId

\* broadcastToRoom of the standalone server: the sockets of room.players.
standaloneBroadcastToRoom(recv, room, state) ==
  Deliver(recv, {room.players[i].id : i \in 1..Len(room.players)}, state)

\* handleJoinMatchmaking of the standalone server: a room with two players
\* is started; for a player left waiting the 60 s timeout "for bot" is set.
standaloneHandleJoinMatchmaking(playerId, fresh) ==
  LET rooms == standaloneFindOrCreateRoom(playerId, fresh)
      roomId == IF AvailableRoom(fresh) # NoRoomId THEN AvailableRoom(fresh) ELSE NewRoomId
  IN  /\ gameRooms' =
           IF Len(rooms[roomId].players) = 2
           THEN [rooms EXCEPT ![roomId].isGameStarted = TRUE]
           ELSE rooms
      /\ timers' =
           IF Len(rooms[roomId].players) = 2 THEN timers
           ELSE timers \cup {Timer("matchmaking", roomId, playerId)}
      /\ received' =
           IF Len(rooms[roomId].players) = 2
           THEN standaloneBroadcastToRoom(Connect(received, playerId), rooms[roomId],
                                          rooms[roomId].gameState)
           ELSE Connect(received, playerId)

\* handleGameMove of the standalone server: after the same two early
\* returns the move itself is not looked at; the turn is switched and the
\* state broadcast; with a bot opponent to move a 2 s timeout is set.
standaloneHandleGameMove(playerId, move) ==
  LET roomId == standaloneRoomOf(gameRooms, playerId)
      state == IF roomId = NoRoomId THEN NullState ELSE gameRooms[roomId].gameState
      newGameState ==
        IF MayAct(roomId, playerId)
        THEN [state EXCEPT !.currentPlayer = Opp(state.currentPlayer)]
        ELSE NullState
  IN  /\ gameRooms' =
           IF newGameState # NullState
           THEN [gameRooms EXCEPT ![roomId].gameState = newGameState]
           ELSE gameRooms
      /\ last' = Handled(playerId, move, state, newGameState, newGameState # NullState)
      /\ timers' =
           IF /\ newGameState # NullState
              /\ BotOpponent(gameRooms[roomId], playerId, newGameState.currentPlayer) # "NONE"
           THEN timers \cup {Timer("bot_move", roomId,
                                   BotOpponent(gameRooms[roomId], playerId,
                                               newGameState.currentPlayer))}
           ELSE timers
      /\ received' =
           IF newGameState # NullState
           THEN standaloneBroadcastToRoom(received, gameRooms[roomId], newGameState)
           ELSE received

StandaloneJoin ==
  /\ server = "standalone"
  /\ \E playerId \in NextNewPlayer : standaloneHandleJoinMatchmaking(playerId, TRUE)
  /\ UNCHANGED <<wsVars, server, pendingGameState, animation, captureAnimation, inbox, gameOver, pending, gameState, playerRooms, last, line, idx, ply>>

StandaloneGameMove ==
  /\ server = "standalone"
  /\ ply < MaxPly
  /\ \E playerId \in PlayerIds, move \in Bodies(MatchState.board) :
       standaloneHandleGameMove(playerId, move)
  /\ ply' = ply + 1
  /\ UNCHANGED <<wsVars, server, pendingGameState, animation, captureAnimation, inbox, gameOver, pending, gameState, playerRooms, line, idx>>

Next ==
  JoinMatchmaking \/ ReplayMessage \/ GameMove \/ StandaloneJoin \/ StandaloneGameMove

Spec == Init /\ [][Next]_vars

(***************************************************************************)
(* A match against the bot (src/unnamed/part_003)                          *)
(***************************************************************************)
BotId == "bot_kodiak"

\* addBotToRoom(roomId) on the given room map: the bot is pushed onto the
\* room's players; playerRooms is not written.
addBotToRoom(rooms, roomId) ==
  IF roomId \notin DOMAIN rooms \/ Len(rooms[roomId].players) # 1 THEN rooms
  ELSE [rooms EXCEPT ![roomId].players = Append(@, ServerPlayer(BotId, "BLACK", TRUE))]

\* The callback of the matchmaking timeout set for playerId.
matchmakingTimeout(playerId) ==
  LET currentRoom == getRoomByPlayer(playerId)
      added == /\ currentRoom # NoRoomId
               /\ Len(gameRooms[currentRoom].players) = 1
               /\ ~gameRooms[currentRoom].isGameStarted
  IN  /\ gameRooms' =
           IF added THEN startGame(addBotToRoom(gameRooms, currentRoom), currentRoom)
           ELSE gameRooms
      /\ received' =
           IF added
           THEN sendToPlayer(received, playerId, gameRooms[currentRoom].gameState)
           ELSE received

\* The record of a run of handleBotMove.
BotHandled(botId, botMove, before, result, broadcast) ==
  [op |-> "handleBotMove", sender |-> botId, kind |-> botMove.kind,
   from |-> botMove.from, to |-> botMove.to, pieceType |-> botMove.pieceType,
   before |-> before, result |-> result, broadcast |-> broadcast]

\* room.players.find((p) => p.id === botId) is a bot.
IsBotIn(room, botId) ==
  \E i \in 1..Len(room.players) :
     /\ room.players[i].id = botId
     /\ \A j \in 1..(i - 1) : room.players[j].id # botId
     /\ room.players[i].isBot

\* handleBotMove(roomId, botId): the room is looked up by the bot's id; with
\* no such room, or a player that is no bot, it returns at once. Otherwise
\* the action getBotMove returns is executed on the room's state, stored
\* with updateGameState(roomId, ...) and broadcast.
handleBotMove(roomId, botId) ==
  LET room == getRoomByPlayer(botId)
  IN  IF \/ room = NoRoomId
         \/ ~gameRooms[room].isGameStarted
         \/ ~IsBotIn(gameRooms[room], botId)
      THEN /\ gameRooms' = gameRooms
           /\ received' = received
           /\ last' = BotHandled(botId, NoAction, NullState, NullState, FALSE)
      ELSE \E botMove \in getBotMove(gameRooms[room].gameState,
                                      ColorIn(gameRooms[room], botId)) :
             LET state == gameRooms[room].gameState
                 newGameState == ExecuteMove(state, botMove)
                 stored == newGameState \notin {NullState, Thrown}
                             /\ roomId \in DOMAIN gameRooms
             IN  /\ gameRooms' =
                      IF stored
                      THEN [gameRooms EXCEPT ![roomId].gameState = newGameState]
                      ELSE gameRooms
                 /\ received' =
                      IF stored THEN broadcastToRoom(received, roomId, newGameState)
                      ELSE received
                 /\ last' = BotHandled(botId, botMove, state, newGameState, stored)

\* 60 s after a player was left waiting.
MatchmakingTimeout ==
  /\ server = "route"
  /\ \E t \in timers :
       /\ t.kind = "matchmaking"
       /\ matchmakingTimeout(t.playerId)
       /\ timers' = timers \ {t}
  /\ UNCHANGED <<wsVars, server, pendingGameState, animation, captureAnimation, inbox, gameOver, pending, gameState, playerRooms, last, line, idx, ply>>

\* 1 s after an accepted action left the bot to move.
BotMoveTimeout ==
  /\ server = "route"
  /\ \E t \in timers :
       /\ t.kind = "bot_move"
       /\ handleBotMove(t.roomId, t.playerId)
       /\ timers' = timers \ {t}
  /\ UNCHANGED <<wsVars, server, pendingGameState, animation, captureAnimation, inbox, gameOver, pending, gameState, playerRooms, line, idx, ply>>

\* The recorded game whose first ply the human plays against the bot.
BotLines == {1}

InitBot == Start /\ server = "route" /\ line \in BotLines

\* The case in which the bot is substituted: one player seeks a match and
\* nobody else joins.
LoneJoin == Joined = {} /\ JoinMatchmaking

NextBot ==
  LoneJoin \/ MatchmakingTimeout \/ ReplayMessage \/ GameMove \/ BotMoveTimeout

\* A callback handed to setTimeout is run once its delay has passed.
SpecBot ==
  InitBot /\ [][NextBot]_vars /\ WF_vars(MatchmakingTimeout) /\ WF_vars(BotMoveTimeout)

(***************************************************************************)
(* Rooms under joins, timeouts and disconnections                          *)
(* (src/unnamed/part_003, src/server/websocket-server.ts)                  *)
(***************************************************************************)
\* A map without the given key.
Without(map, key) == [q \in DOMAIN map \ {key} |-> map[q]]

\* room.players.filter((p) => p.id !== playerId).
FilterPlayers(players, playerId) ==
  SelectSeq(players, LAMBDA pl : pl.id # playerId)

\* removePlayerFromRoom(playerId): the two maps after the call.
removePlayerFromRoom(playerId) ==
  LET roomId == IF playerId \in DOMAIN playerRooms THEN playerRooms[playerId] ELSE NoRoomId
      left == FilterPlayers(gameRooms[roomId].players, playerId)
  IN  IF roomId = NoRoomId
      THEN [gameRooms |-> gameRooms, playerRooms |-> playerRooms]
      ELSE [gameRooms |->
              IF roomId \notin DOMAIN gameRooms THEN gameRooms
              ELSE IF Len(left) = 0 THEN Without(gameRooms, roomId)
              ELSE [gameRooms EXCEPT ![roomId].players = left],
            playerRooms |-> Without(playerRooms, playerId)]

\* handleDisconnection for the socket of playerId: the player leaves its
\* room and the connection is forgotten.
handleDisconnection(playerId) ==
  /\ gameRooms' = removePlayerFromRoom(playerId).gameRooms
  /\ playerRooms' = removePlayerFromRoom(playerId).playerRooms
  /\ received' = Without(received, playerId)

\* handleDisconnection of the standalone server: the player is filtered out
\* of every room and the rooms left empty are deleted.
standaloneHandleDisconnection(playerId) ==
  /\ gameRooms' =
       [r \in {q \in DOMAIN gameRooms :
                 Len(FilterPlayers(gameRooms[q].players, playerId)) # 0} |->
          [gameRooms[r] EXCEPT !.players = FilterPlayers(@, playerId)]]
  /\ received' = Without(received, playerId)

\* addBotToRoom of the standalone server: the bot is pushed and the game
\* started.
standaloneAddBotToRoom(room) ==
  [room EXCEPT !.players = Append(@, ServerPlayer(BotId, "BLACK", TRUE)),
               !.isGameStarted = TRUE]

\* The callback of the standalone server's matchmaking timeout; it holds
\* the room object, which has no players left once it was deleted.
standaloneMatchmakingTimeout(roomId, playerId) ==
  LET added == /\ roomId \in DOMAIN gameRooms
               /\ Len(gameRooms[roomId].players) = 1
               /\ ~gameRooms[roomId].isGameStarted
  IN  /\ gameRooms' =
           IF added
           THEN [gameRooms EXCEPT ![roomId] = standaloneAddBotToRoom(@)]
           ELSE gameRooms
      /\ received' =
           IF added
           THEN sendToPlayer(received, playerId, gameRooms[roomId].gameState)
           ELSE received

\* A connection is closed.
Disconnect ==
  /\ server = "route"
  /\ ply < MaxPly
  /\ \E playerId \in DOMAIN received : handleDisconnection(playerId)
  /\ ply' = ply + 1
  /\ UNCHANGED <<wsVars, server, pendingGameState, animation, captureAnimation, inbox, timers, gameOver, pending, gameState, last, line, idx>>

\* join_matchmaking from any player id, in a room already or not.
JoinAnyPlayer ==
  /\ server = "route"
  /\ ply < MaxPly
  /\ \E playerId \in PlayerIds : handleJoinMatchmaking(playerId, TRUE)
  /\ ply' = ply + 1
  /\ UNCHANGED <<wsVars, server, pendingGameState, animation, captureAnimation, inbox, gameOver, pending, gameState, last, line, idx>>

StandaloneDisconnect ==
  /\ server = "standalone"
  /\ ply < MaxPly
  /\ \E playerId \in DOMAIN received : standaloneHandleDisconnection(playerId)
  /\ ply' = ply + 1
  /\ UNCHANGED <<wsVars, server, pendingGameState, animation, captureAnimation, inbox, timers, gameOver, pending, gameState, playerRooms, last, line, idx>>

StandaloneJoinAnyPlayer ==
  /\ server = "standalone"
  /\ ply < MaxPly
  /\ \E playerId \in PlayerIds : standaloneHandleJoinMatchmaking(playerId, TRUE)
  /\ ply' = ply + 1
  /\ UNCHANGED <<wsVars, server, pendingGameState, animation, captureAnimation, inbox, gameOver, pending, gameState, playerRooms, last, line, idx>>

StandaloneMatchmakingTimeout ==
  /\ server = "standalone"
  /\ \E t \in timers :
       /\ t.kind = "matchmaking"
       /\ standaloneMatchmakingTimeout(t.roomId, t.playerId)
       /\ timers' = timers \ {t}
  /\ UNCHANGED <<wsVars, server, pendingGameState, animation, captureAnimation, inbox, gameOver, pending, gameState, playerRooms, last, line, idx, ply>>

\* The recorded game replayed while players come and go.
RoomLines == {4}

InitRooms ==
  /\ Start
  /\ line \in RoomLines
  /\ server \in {"route", "standalone"}

NextRooms ==
  \/ JoinMatchmaking \/ JoinAnyPlayer \/ MatchmakingTimeout \/ Disconnect
  \/ ReplayMessage \/ BotMoveTimeout
  \/ StandaloneJoin \/ StandaloneJoinAnyPlayer \/ StandaloneMatchmakingTimeout
  \/ StandaloneDisconnect

SpecRooms == InitRooms /\ [][NextRooms]_vars

(***************************************************************************)
(* A client in a match on the route server                                 *)
(* (src/app/components/chess-board.tsx)                                    *)
(***************************************************************************)
\* currentPlayer.id of the client: the player that joins second and plays
\* BLACK; the other player of its room.
Me == "p2"

Opponent == "p1"

\* The recorded game of the match: a WHITE knight steps onto the rook's
\* column, the client takes it with the rook, WHITE moves the king.
ClientGame ==
  << Mv(<<0, 2>>, <<1, 4>>), Mv(<<5, 4>>, <<1, 4>>), Mv(<<0, 0>>, <<1, 1>>) >>

\* game_found has been received: the board component is mounted.
Mounted ==
  /\ getRoomByPlayer(Me) # NoRoomId
  /\ gameRooms[getRoomByPlayer(Me)].isGameStarted

\* isMyTurn = gameState.currentPlayer === currentPlayer.color.
isMyTurn == gameState.currentPlayer = ColorIn(gameRooms[getRoomByPlayer(Me)], Me)

\* applyPendingGameState: gameState and pendingGameState after the call.
applyPendingGameState(state, pendingState) ==
  IF pendingState # NullState
  THEN [gameState |-> pendingState, pendingGameState |-> NullState]
  ELSE [gameState |-> state, pendingGameState |-> pendingState]

\* handleCaptureAnimationComplete applying the pending state whether or not
\* a move animation is set.
handleCaptureAnimationCompleteAlways(state, pendingState, anim) ==
  applyPendingGameState(state, pendingState)

\* handleCaptureAnimationComplete: the pending state is applied only when no
\* move animation is set.
handleCaptureAnimationComplete(state, pendingState, anim) ==
  IF ~anim THEN applyPendingGameState(state, pendingState)
  ELSE [gameState |-> state, pendingGameState |-> pendingState]

\* handleSquareClick, "Making moves": the move is sent (the server handles
\* it and answers), then makeMove's result is handed to startAnimation,
\* which sets the animations and the pending state. The state rendered is
\* not written.
clientMakeMove(from, to) ==
  /\ Mounted
  /\ ~pending
  /\ isMyTurn
  /\ ~gameOver.isOver
  /\ ~animation
  /\ ~captureAnimation
  /\ gameState.board[from] # NoPiece
  /\ isLegalMove(gameState, from, to, FALSE) # {}
  /\ handleGameMove(Me, Mv(from, to))
  /\ pendingGameState' = makeMove(gameState, from, to)
  /\ animation' = TRUE
  /\ captureAnimation' = (gameState.board[to] # NoPiece)
  /\ inbox' = IF last'.broadcast THEN Append(inbox, last'.result) ELSE inbox
  /\ UNCHANGED <<gameState, gameOver, pending>>

\* A move the other player's client has validated and sent.
opponentMove(from, to) ==
  /\ Mounted
  /\ MayAct(getRoomByPlayer(Opponent), Opponent)
  /\ isLegalMove(gameRooms[getRoomByPlayer(Opponent)].gameState, from, to, FALSE) # {}
  /\ handleGameMove(Opponent, Mv(from, to))
  /\ inbox' = IF last'.broadcast THEN Append(inbox, last'.result) ELSE inbox
  /\ UNCHANGED <<gameState, gameOver, pending, pendingGameState, animation,
                 captureAnimation>>

ClientReplay ==
  /\ server = "route"
  /\ ply = 0
  /\ idx < Len(ClientGame)
  /\ clientMakeMove(ClientGame[idx + 1].from, ClientGame[idx + 1].to)
  /\ idx' = idx + 1
  /\ UNCHANGED <<wsVars, server, line, ply>>

OpponentReplay ==
  /\ server = "route"
  /\ ply = 0
  /\ idx < Len(ClientGame)
  /\ opponentMove(ClientGame[idx + 1].from, ClientGame[idx + 1].to)
  /\ idx' = idx + 1
  /\ UNCHANGED <<wsVars, server, line, ply>>

ClientClick ==
  /\ server = "route"
  /\ ply < MaxPly
  /\ \E from \in Pos : \E to \in getPotentialMoves(gameState.board, from) :
       clientMakeMove(from, to)
  /\ ply' = ply + 1
  /\ UNCHANGED <<wsVars, server, line, idx>>

OpponentMove ==
  /\ server = "route"
  /\ ply < MaxPly
  /\ \E from \in Pos : \E to \in getPotentialMoves(MatchState.board, from) :
       opponentMove(from, to)
  /\ ply' = ply + 1
  /\ UNCHANGED <<wsVars, server, line, idx>>

\* The game_state_update handler: setGameState(data.gameState).
DeliverUpdate ==
  /\ Mounted
  /\ inbox # <<>>
  /\ gameState' = Head(inbox)
  /\ inbox' = Tail(inbox)
  /\ pending' = TRUE
  /\ UNCHANGED <<wsVars, server, gameRooms, playerRooms, timers, received, last, line, idx, ply,
                 gameOver, pendingGameState, animation, captureAnimation>>

\* onComplete of the CaptureAnimation component, 1200 ms after it was
\* rendered. The move animation has no component that would complete it:
\* handleAnimationComplete is never called.
CaptureAnimationComplete ==
  /\ captureAnimation
  /\ LET done == handleCaptureAnimationComplete(gameState, pendingGameState, animation)
     IN  /\ gameState' = done.gameState
         /\ pendingGameState' = done.pendingGameState
         /\ pending' = (pending \/ done.gameState # gameState)
  /\ captureAnimation' = FALSE
  /\ UNCHANGED <<wsVars, server, gameRooms, playerRooms, timers, received, last, line, idx, ply,
                 gameOver, animation, inbox>>

InitClient == Start /\ server = "route" /\ line = 1

NextClient ==
  \/ JoinMatchmaking \/ OpponentReplay \/ ClientReplay \/ OpponentMove \/ ClientClick
  \/ DeliverUpdate \/ CaptureAnimationComplete \/ GameEndDetection

SpecClient == InitClient /\ [][NextClient]_vars

(***************************************************************************)
(* Properties                                                              *)
(***************************************************************************)
\* The room the sender of the last message is in, and that room's state.
SenderRoom == getRoomByPlayer(last.sender)

SenderRoomState ==
  IF SenderRoom = NoRoomId THEN NullState ELSE gameRooms[SenderRoom].gameState

\* The last message came from the player whose turn it was in a started room.
SenderWasToMove ==
  /\ last.op = "game_move"
  /\ SenderRoom # NoRoomId
  /\ gameRooms[SenderRoom].isGameStarted
  /\ ColorIn(gameRooms[SenderRoom], last.sender) = last.before.currentPlayer

\* C1: the arbiter applies a move submitted by the player to move only when
\* the piece at `from` is that player's and `to` is among
\* isLegalMove(state, from); any other from/to leaves the room's game state
\* as it was.
C1_OnlyLegalMovesApplied ==
  (SenderWasToMove /\ last.kind = "move") =>
     \/ /\ last.before.board[last.from].color = ColorIn(gameRooms[SenderRoom], last.sender)
        /\ last.to \in isLegalMove(last.before, last.from, NullPos, TRUE)
     \/ SenderRoomState = last.before

\* C2: a game_move whose sender is not a player of a started room, or whose
\* color is not the room's currentPlayer, changes no room's game state and
\* broadcasts no game_state_update.
C2_Step ==
  LET sender == last'.sender
      rooms == {r \in DOMAIN gameRooms :
                  \E i \in 1..Len(gameRooms[r].players) :
                    gameRooms[r].players[i].id = sender}
      outsider == \A r \in rooms : ~gameRooms[r].isGameStarted
      outOfTurn ==
        \E r \in rooms :
          /\ gameRooms[r].isGameStarted
          /\ \E i \in 1..Len(gameRooms[r].players) :
               /\ gameRooms[r].players[i].id = sender
               /\ gameRooms[r].players[i].color # gameRooms[r].gameState.currentPlayer
  IN  (<<idx, ply>>' # <<idx, ply>> /\ last'.op = "game_move" /\ (outsider \/ outOfTurn))
        => (gameRooms' = gameRooms /\ ~last'.broadcast)

C2_OutOfTurnRejected == [][C2_Step]_vars

\* A started match in which the player who is not to move has just sent a
\* game_move, and nothing was applied or broadcast.
C2_Witness ==
  /\ last.op = "game_move"
  /\ SenderRoom # NoRoomId
  /\ gameRooms[SenderRoom].isGameStarted
  /\ ColorIn(gameRooms[SenderRoom], last.sender) = Opp(last.before.currentPlayer)
  /\ last.kind = "move"
  /\ last.before.board[last.from].color = ColorIn(gameRooms[SenderRoom], last.sender)
  /\ SenderRoomState = last.before
  /\ ~last.broadcast

\* Number of kings of a color on a board.
Kings(board, color) == Cardinality({p \in Pos : board[p] = Pc("KING", color)})

\* C3: in every state reached from the starting position by moves that
\* isLegalMove accepts and drops that dropPiece accepts, the board holds
\* exactly one WHITE king and exactly one BLACK king.
C3_OneKingEach ==
  \A color \in PlayerColors : Kings(gameState.board, color) = 1

\* The moves tried on a board: every move following a piece's movement
\* pattern, and the jump from each cell to the opposite cell.
Tried(board) ==
  UNION {{<<from, to>> : to \in getPotentialMoves(board, from) \cup {Flip(from)}} :
           from \in Pos}

\* C4: makeMove hands the turn to the opponent unless the piece moved is a
\* PAWN landing on row 5 (WHITE) or row 0 (BLACK), where currentPlayer stays;
\* every successful dropPiece hands the turn to the opponent.
C4_TurnAlternation ==
  /\ \A m \in Tried(gameState.board) :
       LET piece == gameState.board[m[1]]
           promotes ==
             \/ piece = Pc("PAWN", "WHITE") /\ m[2][1] = 5
             \/ piece = Pc("PAWN", "BLACK") /\ m[2][1] = 0
       IN  makeMove(gameState, m[1], m[2]).currentPlayer =
             IF promotes THEN gameState.currentPlayer
             ELSE Opp(gameState.currentPlayer)
  /\ \A pieceType \in PieceTypes, to \in Pos :
       dropPiece(gameState, pieceType, to) # NullState =>
         dropPiece(gameState, pieceType, to).currentPlayer = Opp(gameState.currentPlayer)
  /\ (last.op = "dropPiece" /\ last.result # NullState) =>
       gameState.currentPlayer = Opp(last.before.currentPlayer)

\* A pawn has just been moved onto its far rank and the turn did not pass.
C4_Witness ==
  /\ last.op = "makeMove"
  /\ last.before.board[last.from] = Pc("PAWN", "WHITE")
  /\ last.to[1] = 5
  /\ gameState.board[last.to] = Pc("PAWN", "WHITE")
  /\ gameState.currentPlayer = "WHITE"
  /\ last.before.currentPlayer = "WHITE"

\* A pawn of `color` stands on its far rank at `to` and it is still that
\* color's turn: a promotion is pending.
PromotionPending(state, color, to) ==
  /\ state.currentPlayer = color
  /\ state.board[to] = Pc("PAWN", color)
  /\ to[1] = (IF color = "WHITE" THEN 5 ELSE 0)

\* C5: when the owner of a pawn waiting on its far rank submits a promotion
\* choice of type T for that square, the room's state then holds {T, owner's
\* color} there and currentPlayer is the opponent.
C5_PromotionResolved ==
  (/\ SenderWasToMove
   /\ last.kind = "promotion"
   /\ PromotionPending(last.before, last.before.currentPlayer, last.to))
  => /\ SenderRoomState.board[last.to] = Pc(last.pieceType, last.before.currentPlayer)
     /\ SenderRoomState.currentPlayer = Opp(last.before.currentPlayer)

\* C6: for every piece of currentPlayer, after any move isLegalMove returns
\* the mover's king is not in check.
C6_NoSelfCheck ==
  \A from \in Pos :
    \A to \in isLegalMove(gameState, from, NullPos, TRUE) :
      ~isKingInCheck(makeMove(gameState, from, to), gameState.currentPlayer)

\* C7: dropPiece returns null exactly when the mover holds no piece of the
\* type, or the cell is occupied, or a PAWN would land on the mover's far
\* rank (whatever the hand count and the cell); a refused drop leaves the
\* match state as it was, every other drop returns a new state.
C7_DropRefusedExactlyWhen ==
  /\ \A pieceType \in PieceTypes, to \in Pos :
       LET held ==
             IF gameState.currentPlayer = "WHITE" THEN gameState.player1Hand[pieceType]
             ELSE gameState.player2Hand[pieceType]
           farRank == IF gameState.currentPlayer = "WHITE" THEN 5 ELSE 0
           refused ==
             \/ held = 0
             \/ gameState.board[to] # NoPiece
             \/ (pieceType = "PAWN" /\ to[1] = farRank)
       IN  /\ (dropPiece(gameState, pieceType, to) = NullState) <=> refused
           /\ ~refused => dropPiece(gameState, pieceType, to) # gameState
  /\ (last.op = "dropPiece" /\ last.result = NullState) => gameState = last.before
  /\ (last.op = "dropPiece" /\ last.result # NullState) =>
       (gameState = last.result /\ gameState # last.before)

\* A pawn drop on the far rank has just been refused although the mover holds
\* a pawn and the cell is empty.
C7_Witness ==
  /\ last.op = "dropPiece"
  /\ last.pieceType = "PAWN"
  /\ last.result = NullState
  /\ HandOf(last.before, last.before.currentPlayer)["PAWN"] > 0
  /\ last.before.board[last.to] = NoPiece
  /\ gameState = last.before

\* C8: a legal move onto an occupied cell adds exactly 1 to the mover's hand
\* count for the captured type, changes no other count of either hand, and
\* leaves the moving piece on the destination and the origin empty; a legal
\* move onto an empty cell changes neither hand.
C8_CaptureGoesToHand ==
  \A from \in Pos :
    \A to \in isLegalMove(gameState, from, NullPos, TRUE) :
      LET after == makeMove(gameState, from, to)
          mover == gameState.currentPlayer
          captured == gameState.board[to]
          mine(state) == IF mover = "WHITE" THEN state.player1Hand ELSE state.player2Hand
          theirs(state) == IF mover = "WHITE" THEN state.player2Hand ELSE state.player1Hand
      IN  /\ theirs(after) = theirs(gameState)
          /\ after.board[to] = gameState.board[from]
          /\ after.board[from] = NoPiece
          /\ \A t \in PieceTypes :
               mine(after)[t] =
                 mine(gameState)[t] + (IF captured # NoPiece /\ captured.type = t THEN 1 ELSE 0)

\* A capture has just been made and the captured type is in the mover's hand.
C8_Witness ==
  /\ last.op = "makeMove"
  /\ last.before.board[last.to].type = "BISHOP"
  /\ HandOf(gameState, last.before.currentPlayer)["BISHOP"] =
       HandOf(last.before, last.before.currentPlayer)["BISHOP"] + 1
  /\ gameState.board[last.to] = last.before.board[last.from]

\* The pieces of the other color that have the first king of `color` among
\* their potential moves.
Checkers(state, color) ==
  {p \in Pos :
     /\ state.board[p].color = Opp(color)
     /\ FindKing(state.board, color) \in getPotentialMoves(state.board, p)}

\* The cells strictly between two cells of one row or one column.
Between(a, b) ==
  {q \in Pos :
     \/ /\ a[1] = b[1] /\ q[1] = a[1]
        /\ ((a[2] < q[2] /\ q[2] < b[2]) \/ (b[2] < q[2] /\ q[2] < a[2]))
     \/ /\ a[2] = b[2] /\ q[2] = a[2]
        /\ ((a[1] < q[1] /\ q[1] < b[1]) \/ (b[1] < q[1] /\ q[1] < a[1]))}

Held(state, color, pieceType) ==
  IF color = "WHITE" THEN state.player1Hand[pieceType] ELSE state.player2Hand[pieceType]

FarRank(color) == IF color = "WHITE" THEN 5 ELSE 0

\* No piece of `color` has a legal destination when `color` is to move.
NoLegalDestination(state, color) ==
  \A p \in Pos :
    state.board[p].color = color =>
      isLegalMove([state EXCEPT !.currentPlayer = color], p, NullPos, TRUE) = {}

\* The piece at `a` is a rook, and `color` holds a piece it can put on a cell
\* between that rook and its king.
CanInterposeOnRook(state, color, a) ==
  /\ state.board[a].type = "ROOK"
  /\ \E q \in Between(a, FindKing(state.board, color)), t \in PieceTypes :
       /\ Held(state, color, t) > 0
       /\ ~(t = "PAWN" /\ q[1] = FarRank(color))

\* `color` is in check from one rook and nothing else, and can interpose.
RookCheckWithInterposition(state, color) ==
  /\ isKingInCheck(state, color)
  /\ LET checkers == Checkers(state, color)
     IN  \E a \in checkers : checkers = {a} /\ CanInterposeOnRook(state, color, a)

\* isCheckmate(state, color) is true exactly when color's king is in check, no
\* piece of color has a legal destination, and no held piece type can be put
\* on an empty cell (a PAWN never on the far rank) so that the king is no
\* longer in check.
CheckmateIff(color) ==
  isCheckmate(gameState, color) <=>
    /\ isKingInCheck(gameState, color)
    /\ NoLegalDestination(gameState, color)
    /\ \A t \in PieceTypes, q \in Pos :
         (/\ Held(gameState, color, t) > 0
          /\ gameState.board[q] = NoPiece
          /\ ~(t = "PAWN" /\ q[1] = FarRank(color)))
         => isKingInCheck([gameState EXCEPT !.board[q] = Pc(t, color)], color)

\* C9 (as amended): isCheckmate is true exactly when the king is in check,
\* no piece has a legal destination and no drop of a held piece ends the
\* check; it is false whenever a rook is the only piece giving check and a
\* held piece can be dropped on the line between that rook and the king.
C9_CheckmateIff ==
  \A color \in PlayerColors :
    /\ CheckmateIff(color)
    /\ RookCheckWithInterposition(gameState, color) => ~isCheckmate(gameState, color)

\* C9 (as stated): the same equivalence, and isCheckmate is false whenever a
\* held piece can be dropped on the line between a checking rook and the king,
\* whatever else gives check.
C9_FalseWheneverRookLineBlockable ==
  \A color \in PlayerColors :
    /\ CheckmateIff(color)
    /\ isKingInCheck(gameState, color) =>
         \A a \in Checkers(gameState, color) :
           CanInterposeOnRook(gameState, color, a) => ~isCheckmate(gameState, color)

\* WHITE is checked by a rook alone, has no legal move, and escapes mate only
\* through the drop between rook and king.
C9_Witness ==
  /\ gameState.currentPlayer = "WHITE"
  /\ isKingInCheck(gameState, "WHITE")
  /\ NoLegalDestination(gameState, "WHITE")
  /\ RookCheckWithInterposition(gameState, "WHITE")
  /\ ~isCheckmate(gameState, "WHITE")

\* C10: isStalemate(state, color) is true exactly when color's king is not
\* in check, no piece of color has a legal destination, and no held piece
\* type has an empty cell to go to (a PAWN never on the far rank); a lone king
\* without a legal move, not in check, with an empty hand is stalemated.
C10_StalemateIff ==
  \A color \in PlayerColors :
    /\ isStalemate(gameState, color) <=>
         /\ ~isKingInCheck(gameState, color)
         /\ NoLegalDestination(gameState, color)
         /\ ~\E t \in PieceTypes, q \in Pos :
               /\ Held(gameState, color, t) > 0
               /\ gameState.board[q] = NoPiece
               /\ ~(t = "PAWN" /\ q[1] = FarRank(color))
    /\ (/\ {p \in Pos : gameState.board[p].color = color}
            = {p \in Pos : gameState.board[p] = Pc("KING", color)}
        /\ Kings(gameState.board, color) = 1
        /\ NoLegalDestination(gameState, color)
        /\ \A t \in PieceTypes : Held(gameState, color, t) = 0
        /\ ~Attacked(gameState.board, Opp(color), FindKing(gameState.board, color)))
       => (isStalemate(gameState, color) /\ ~isKingInCheck(gameState, color))

\* The lone BLACK king is to move, has no move, is not in check, and BLACK
\* holds nothing: stalemate.
C10_Witness ==
  /\ gameState.currentPlayer = "BLACK"
  /\ {p \in Pos : gameState.board[p].color = "BLACK"} = {FindKing(gameState.board, "BLACK")}
  /\ \A t \in PieceTypes : Held(gameState, "BLACK", t) = 0
  /\ isStalemate(gameState, "BLACK")
  /\ ~isKingInCheck(gameState, "BLACK")
  /\ ~isCheckmate(gameState, "BLACK")

\* C11: when a run of the game end detection finds the player to move
\* checkmated or stalemated, the game is declared over with the opponent of
\* the player to move as winner; a game declared over for stalemate never has
\* winner none.
C11_Step ==
  LET mover == gameState.currentPlayer
      marked ==
        gameState.checkedKingPosition =
          (IF isKingInCheck(gameState, mover) THEN FindKing(gameState.board, mover)
           ELSE NullPos)
  IN  /\ (/\ last'.op = "gameEndDetection"
          /\ last' # last
          /\ ~gameOver.isOver
          /\ marked
          /\ (isStalemate(gameState, mover) \/ isCheckmate(gameState, mover)))
         => /\ gameOver'.isOver
            /\ gameOver'.winner = Opp(mover)
            /\ gameOver'.reason =
                 (IF isKingInCheck(gameState, mover) THEN "Checkmate" ELSE "Stalemate")
            /\ gameState' = gameState
      /\ gameOver'.isOver =>
           /\ gameOver'.winner = Opp(gameState'.currentPlayer)
           /\ gameOver'.winner \in PlayerColors

C11_StalemateIsLoss == [][C11_Step]_vars

\* The game has been declared over for stalemate of the player to move, who
\* is not in check and has neither a move nor a drop; the opponent has won.
C11_Witness ==
  /\ gameOver.isOver
  /\ gameOver.reason = "Stalemate"
  /\ gameOver.winner = Opp(gameState.currentPlayer)
  /\ ~isKingInCheck(gameState, gameState.currentPlayer)
  /\ NoLegalDestination(gameState, gameState.currentPlayer)
  /\ \A t \in PieceTypes : Held(gameState, gameState.currentPlayer, t) = 0

\* C12: makeMove, dropPiece (accepted or refused), isLegalMove,
\* isKingInCheck, isCheckmate and isStalemate leave the GameState object they
\* are given with the value it had, in every field; a second call of
\* isLegalMove or isKingInCheck on the same object returns what the first
\* returned.  Stated of the calls the last step made on the state it found.
C12_EngineLeavesStateUnchanged ==
  /\ last.op = "makeMove" =>
       LET first == isLegalMoveCall(last.before, last.from, last.to, FALSE)
           second == isLegalMoveCall(first.given, last.from, last.to, FALSE)
           all == isLegalMoveCall(last.before, last.from, NullPos, TRUE)
           call == makeMoveCall(last.before, last.from, last.to)
       IN  /\ first = [given |-> last.before, returned |-> {last.to}]
           /\ second.returned = first.returned
           /\ all.given = last.before
           /\ isLegalMoveCall(all.given, last.from, NullPos, TRUE).returned = all.returned
           /\ call = [given |-> last.before, returned |-> gameState]
  /\ last.op = "dropPiece" =>
       dropPieceCall(last.before, last.pieceType, last.to)
         = [given |-> last.before, returned |-> last.result]
  /\ last.op = "gameEndDetection" =>
       \A color \in {last.before.currentPlayer} :
         LET first == isKingInCheckCall(last.before, color)
             second == isKingInCheckCall(first.given, color)
         IN  /\ first = [given |-> last.before,
                         returned |-> isKingInCheck(last.before, color)]
             /\ second.returned = first.returned
             /\ isCheckmateCall(last.before, color)
                  = [given |-> last.before, returned |-> isCheckmate(last.before, color)]
             /\ isStalemateCall(last.before, color)
                  = [given |-> last.before, returned |-> isStalemate(last.before, color)]

\* A capture has just been made: the object passed to makeMove still has the
\* captured piece on the board and the old hand, the returned object does not.
C12_Witness ==
  /\ last.op = "makeMove"
  /\ last.before.board[last.to] # NoPiece
  /\ makeMoveCall(last.before, last.from, last.to)
       = [given |-> last.before, returned |-> gameState]
  /\ gameState.board # last.before.board
  /\ HandOf(gameState, last.before.currentPlayer)
       # HandOf(last.before, last.before.currentPlayer)

\* C13: every count of both hands of every match is a non-negative integer;
\* a count is lowered only by a dropPiece of that type by the player to move,
\* by exactly 1 and from a positive value.
C13_Step ==
  \A r \in DOMAIN gameRooms' :
    LET new == gameRooms'[r].gameState
        old == IF r \in DOMAIN gameRooms THEN gameRooms[r].gameState ELSE new
    IN  \A hand \in {"player1Hand", "player2Hand"}, t \in PieceTypes :
          /\ new[hand][t] \in Nat
          /\ new[hand][t] < old[hand][t] =>
               /\ last'.op = "game_move"
               /\ last'.kind = "drop"
               /\ last'.pieceType = t
               /\ hand = (IF old.currentPlayer = "WHITE" THEN "player1Hand"
                          ELSE "player2Hand")
               /\ old[hand][t] > 0
               /\ new[hand][t] = old[hand][t] - 1

C13_HandCountsNeverNegative == [][C13_Step]_vars

\* A drop has just taken the last piece of its type out of the mover's hand.
C13_Witness ==
  /\ last.op = "game_move"
  /\ last.kind = "drop"
  /\ last.broadcast
  /\ HandOf(last.before, last.before.currentPlayer)[last.pieceType] = 1
  /\ HandOf(SenderRoomState, last.before.currentPlayer)[last.pieceType] = 0

\* The legal destinations of the piece at from: the cells its movement
\* pattern reaches that do not leave the mover's own king attacked.
LegalDestinations(state, from) ==
  {m \in Pos :
     /\ state.board[from] # NoPiece
     /\ state.board[from].color = state.currentPlayer
     /\ m \in getPotentialMoves(state.board, from)
     /\ ~wouldKingBeInCheck(state, from, m)}

\* C14: for the position and the piece of the move just made, isLegalMove
\* with a destination returns {to} when to is a legal destination and {}
\* otherwise (tried on the destination played, its mirror cell and the
\* piece's own cell), and with no destination returns every legal destination.
C14_LegalMoveResult ==
  last.op = "makeMove" =>
    LET legal == LegalDestinations(last.before, last.from)
    IN  /\ \A to \in {last.to, Flip(last.to), last.from} :
             isLegalMove(last.before, last.from, to, FALSE) =
               (IF to \in legal THEN {to} ELSE {})
        /\ isLegalMove(last.before, last.from, NullPos, FALSE) = legal

\* The move just made went to one of several legal destinations of its piece,
\* and the mirror cell of its destination was not one of them.
C14_Witness ==
  /\ last.op = "makeMove"
  /\ isLegalMove(last.before, last.from, last.to, FALSE) = {last.to}
  /\ Cardinality(isLegalMove(last.before, last.from, NullPos, FALSE)) > 1
  /\ isLegalMove(last.before, last.from, Flip(last.to), FALSE) = {}

\* C15: in every position of the play, isLegalMove returns the empty set for
\* every cell that is empty or holds a piece of the player who is not to move.
C15_NoMovesForEmptyOrOtherColor ==
  \A from \in Pos :
    (gameState.board[from] = NoPiece
       \/ gameState.board[from].color # gameState.currentPlayer) =>
      /\ isLegalMove(gameState, from, NullPos, FALSE) = {}
      /\ isLegalMove(gameState, from, NullPos, TRUE) = {}

\* The piece that has just moved could move on by its movement pattern, but
\* its owner is no longer to move and isLegalMove returns nothing for it.
C15_Witness ==
  /\ last.op = "makeMove"
  /\ gameState.board[last.to].color = Opp(gameState.currentPlayer)
  /\ getPotentialMoves(gameState.board, last.to) # {}
  /\ isLegalMove(gameState, last.to, NullPos, FALSE) = {}
  /\ isLegalMove(gameState, last.from, NullPos, FALSE) = {}

\* C16: a drop whose target is outside the grid is answered with null and
\* leaves the match as it was (no piece placed, no hand count changed, no
\* error thrown), and isLegalMove returns the empty set for such a target.
C16_OffBoardTargetHasNoEffect ==
  /\ (server = "route" /\ last.op = "game_move" /\ last.kind = "drop"
        /\ last.to \notin Pos /\ last.before # NullState) =>
       /\ dropPiece(last.before, last.pieceType, last.to) = NullState
       /\ last.result = NullState
       /\ SenderRoomState = last.before
  /\ \A from \in Pos, to \in OffBoard :
       isLegalMove(MatchState, from, to, FALSE) = {}

\* C17: a drop that succeeded put {pieceType, mover's color} on the cell to,
\* took 1 off the mover's count of pieceType, set lastMove to
\* {from: (-1,-1), to} and flipped currentPlayer; every other cell, every
\* other count of the mover, the opponent's hand and checkedKingPosition are
\* as before.
C17_DropFrame ==
  (last.op = "dropPiece" /\ last.result # NullState) =>
    LET before == last.before
        after == last.result
        mover == before.currentPlayer
    IN  /\ after.board[last.to] = Pc(last.pieceType, mover)
        /\ \A p \in Pos \ {last.to} : after.board[p] = before.board[p]
        /\ DOMAIN after.board = DOMAIN before.board
        /\ \A t \in PieceTypes :
             HandOf(after, mover)[t] =
               HandOf(before, mover)[t] - (IF t = last.pieceType THEN 1 ELSE 0)
        /\ HandOf(after, Opp(mover)) = HandOf(before, Opp(mover))
        /\ after.lastMove = [from |-> <<-1, -1>>, to |-> last.to]
        /\ after.currentPlayer = Opp(mover)
        /\ after.checkedKingPosition = before.checkedKingPosition
        /\ gameState = after

\* A drop has succeeded while a checked king was marked, and took the last
\* piece of its type out of the mover's hand.
C17_Witness ==
  /\ last.op = "dropPiece"
  /\ last.result # NullState
  /\ last.before.checkedKingPosition # NullPos
  /\ HandOf(last.before, last.before.currentPlayer)[last.pieceType] = 1
  /\ gameState.board[last.to] = Pc(last.pieceType, last.before.currentPlayer)

\* The cells holding a king of the color.
KingCells(state, color) == {k \in Pos : state.board[k] = Pc("KING", color)}

\* Some piece of the other color has the cell of a king of the color among
\* the cells its movement pattern reaches.
KingAttacked(state, color) ==
  \E k \in KingCells(state, color), p \in Pos :
    /\ state.board[p].color = Opp(color)
    /\ k \in getPotentialMoves(state.board, p)

\* C18: for both colors and whoever is to move, isKingInCheck is true exactly
\* when a piece of the other color reaches the cell of the color's king by
\* its movement pattern, and false when the color has no king on the board.
C18_CheckIffKingAttacked ==
  \A color \in PlayerColors, c \in PlayerColors :
    isKingInCheck([gameState EXCEPT !.currentPlayer = c], color) =
      KingAttacked(gameState, color)

\* The directions of movement of a ROOK and of a BISHOP.
Directions(type) ==
  IF type = "ROOK" THEN {<<0, -1>>, <<0, 1>>, <<-1, 0>>, <<1, 0>>}
  ELSE {<<-1, -1>>, <<-1, 1>>, <<1, -1>>, <<1, 1>>}

\* The cell k steps from `from` in direction d.
Along(from, d, k) == <<from[1] + d[1] * k, from[2] + d[2] * k>>

\* The number of steps to the first occupied cell in direction d, 6 when the
\* line is empty up to the edge of the board.
FirstOccupied(board, from, d) ==
  LET occupied == {k \in 1..5 : Along(from, d, k) \in Pos
                                  /\ board[Along(from, d, k)] # NoPiece}
  IN  IF occupied = {} THEN 6
      ELSE CHOOSE k \in occupied : \A j \in occupied : k <= j

\* The empty cells before the first occupied cell in direction d, and that
\* cell when it holds a piece of the other color.
LineDestinations(board, from, d) ==
  LET first == FirstOccupied(board, from, d)
  IN  {Along(from, d, k) : k \in {j \in 1..5 : j < first /\ Along(from, d, j) \in Pos}}
      \cup {Along(from, d, k) :
              k \in {j \in {first} : j <= 5
                       /\ board[Along(from, d, j)].color = Opp(board[from].color)}}

\* C19: for every ROOK and BISHOP on the board the destinations of its
\* movement pattern are, along each of its four directions, the empty cells
\* before the first occupied cell plus that cell when it holds an enemy
\* piece; its legal destinations are among them, none beyond the first
\* occupied cell.
C19_SlidersStopAtFirstOccupied ==
  \A from \in Pos :
    gameState.board[from].type \in {"ROOK", "BISHOP"} =>
      LET reach == UNION {LineDestinations(gameState.board, from, d) :
                            d \in Directions(gameState.board[from].type)}
      IN  /\ getPotentialMoves(gameState.board, from) = reach
          /\ isLegalMove(gameState, from, NullPos, TRUE) \subseteq reach

\* A ROOK or BISHOP has just moved; from its new cell one line ends on an
\* enemy piece with a cell of the board behind it, and another on a piece of
\* its own color.
C19_Witness ==
  /\ last.op = "makeMove"
  /\ gameState.board[last.to].type \in {"ROOK", "BISHOP"}
  /\ \E d \in Directions(gameState.board[last.to].type) :
       LET first == FirstOccupied(gameState.board, last.to, d)
       IN  /\ first <= 4
           /\ Along(last.to, d, first + 1) \in Pos
           /\ gameState.board[Along(last.to, d, first)].color =
                Opp(gameState.board[last.to].color)
  /\ \E d \in Directions(gameState.board[last.to].type) :
       LET first == FirstOccupied(gameState.board, last.to, d)
       IN  /\ first <= 5
           /\ gameState.board[Along(last.to, d, first)].color =
                gameState.board[last.to].color

\* The row in front of a pawn of the color.
ForwardRow(from, color) == from[1] + (IF color = "WHITE" THEN 1 ELSE -1)

\* C20: for every PAWN on the board, each destination of its movement
\* pattern, and so each legal destination, is on the next row forward, in
\* its own column only if that cell is empty and in a neighbouring column
\* only if that cell holds an enemy piece.
C20_PawnDestinations ==
  \A from \in Pos :
    gameState.board[from].type = "PAWN" =>
      LET color == gameState.board[from].color
      IN  /\ \A to \in getPotentialMoves(gameState.board, from) :
               /\ to \in Pos
               /\ to[1] = ForwardRow(from, color)
               /\ to[2] \in {from[2] - 1, from[2], from[2] + 1}
               /\ to[2] = from[2] => gameState.board[to] = NoPiece
               /\ to[2] # from[2] => gameState.board[to].color = Opp(color)
          /\ isLegalMove(gameState, from, NullPos, TRUE)
               \subseteq getPotentialMoves(gameState.board, from)

\* A pawn of the player to move has exactly two legal destinations: the
\* empty cell straight ahead and an enemy piece on a forward diagonal.
C20_Witness ==
  \E from \in Pos :
    LET row == ForwardRow(from, gameState.currentPlayer)
        legal == isLegalMove(gameState, from, NullPos, TRUE)
    IN  /\ gameState.board[from] = Pc("PAWN", gameState.currentPlayer)
        /\ <<row, from[2]>> \in legal
        /\ gameState.board[<<row, from[2]>>] = NoPiece
        /\ Cardinality(legal) = 2
        /\ \E side \in {-1, 1} :
             /\ <<row, from[2] + side>> \in legal
             /\ gameState.board[<<row, from[2] + side>>].color =
                  Opp(gameState.currentPlayer)

\* The pieces of the starting position, cell by cell.
StartingPieces ==
  {<<<<0, 0>>, "KING", "WHITE">>, <<<<0, 1>>, "ROOK", "WHITE">>,
   <<<<0, 2>>, "KNIGHT", "WHITE">>, <<<<0, 3>>, "BISHOP", "WHITE">>,
   <<<<1, 0>>, "PAWN", "WHITE">>,
   <<<<5, 5>>, "KING", "BLACK">>, <<<<5, 4>>, "ROOK", "BLACK">>,
   <<<<5, 3>>, "KNIGHT", "BLACK">>, <<<<5, 2>>, "BISHOP", "BLACK">>,
   <<<<4, 5>>, "PAWN", "BLACK">>}

IsStartingPosition(state) ==
  /\ DOMAIN state.board = Pos
  /\ \A p \in Pos :
       /\ \A e \in StartingPieces :
            e[1] = p => state.board[p] = [type |-> e[2], color |-> e[3]]
       /\ (\A e \in StartingPieces : e[1] # p) => state.board[p] = NoPiece
  /\ \A t \in PieceTypes : state.player1Hand[t] = 0 /\ state.player2Hand[t] = 0
  /\ state.currentPlayer = "WHITE"
  /\ state.lastMove = NoMove
  /\ state.checkedKingPosition = NullPos
  /\ ~isKingInCheck(state, "WHITE")
  /\ ~isKingInCheck(state, "BLACK")

\* Every room that this step creates, and every room whose match this step
\* starts, holds the starting position.
C21_Step ==
  \A r \in DOMAIN gameRooms' :
    (\/ r \notin DOMAIN gameRooms
     \/ (gameRooms'[r].isGameStarted /\ ~gameRooms[r].isGameStarted)) =>
      IsStartingPosition(gameRooms'[r].gameState)

\* C21: getInitialGameState is the starting position of the claim (the ten
\* pieces on their cells, empty hands, WHITE to move, no last move, no checked
\* king and no king in check), and every room is created with it and starts
\* its match from it, on both servers.
C21_InitialState ==
  /\ IsStartingPosition(getInitialGameState)
  /\ IsStartingPosition(gameState)
  /\ [][C21_Step]_vars

\* A match has just started from the starting position while a second room,
\* just created, waits with the starting position.
C21_Witness ==
  /\ idx = 0
  /\ ply = 0
  /\ \E r \in DOMAIN gameRooms, q \in DOMAIN gameRooms :
       /\ gameRooms[r].isGameStarted
       /\ Len(gameRooms[r].players) = 2
       /\ gameRooms[r].gameState = getInitialGameState
       /\ ~gameRooms[q].isGameStarted
       /\ Len(gameRooms[q].players) = 1
       /\ gameRooms[q].gameState = getInitialGameState

\* The engine accepts the action for the color: a move of one of its pieces
\* to a cell isLegalMove returns, or a drop of a piece type it holds that
\* dropPiece answers with a state in which its piece stands on the cell and
\* its hand has one less.
AcceptedFor(state, color, action) ==
  \/ /\ action.kind = "move"
     /\ state.board[action.from].color = color
     /\ action.to \in isLegalMove(state, action.from, action.to, FALSE)
  \/ /\ action.kind = "drop"
     /\ HandOf(state, color)[action.pieceType] > 0
     /\ dropPiece(state, action.pieceType, action.to) # NullState
     /\ dropPiece(state, action.pieceType, action.to).board[action.to].color = color
     /\ HandOf(dropPiece(state, action.pieceType, action.to), color)[action.pieceType]
          = HandOf(state, color)[action.pieceType] - 1

CheckedKingMarked(state) ==
  IF isKingInCheck(state, "WHITE") \/ isKingInCheck(state, "BLACK")
  THEN /\ state.checkedKingPosition \in Pos
       /\ state.board[state.checkedKingPosition].type = "KING"
       /\ isKingInCheck(state, state.board[state.checkedKingPosition].color)
  ELSE state.checkedKingPosition = NullPos

\* C23: the state that the route server has just received from makeMove or
\* dropPiece, stored in the room and broadcast has checkedKingPosition on a
\* king in check, or null when no king is in check.
C23_CheckedKingPositionCurrent ==
  (server = "route" /\ last.op = "game_move" /\ last.broadcast) =>
    /\ SenderRoomState = last.result
    /\ CheckedKingMarked(last.result)

\* C24: in the state of every room no QUEEN stands on any cell and both
\* hands hold 0 QUEENs.
C24_NoQueen ==
  \A r \in DOMAIN gameRooms :
    LET state == gameRooms[r].gameState
    IN  /\ \A p \in DOMAIN state.board : state.board[p].type # "QUEEN"
        /\ state.player1Hand["QUEEN"] = 0
        /\ state.player2Hand["QUEEN"] = 0

\* The player to move, whose pawn stands on its far rank, has just sent the
\* choice of a QUEEN for it; the pawn is still a PAWN.
C24_Witness ==
  /\ server = "route"
  /\ last.op = "game_move"
  /\ last.kind = "promotion"
  /\ last.pieceType = "QUEEN"
  /\ SenderRoom # NoRoomId
  /\ ColorIn(gameRooms[SenderRoom], last.sender) = SenderRoomState.currentPlayer
  /\ SenderRoomState.board[last.to] = Pc("PAWN", SenderRoomState.currentPlayer)
  /\ last.to[1] = FarRank(SenderRoomState.currentPlayer)

\* C25: recorded game 1 is a sequence of legal moves and accepted drops from
\* the initial state (each ply is one isLegalMove returns, or a drop
\* dropPiece answers with a state), and at its end WHITE is to move and
\* isCheckmate(state, WHITE) is true: the WHITE king is attacked, no WHITE
\* piece has a legal destination and no held piece can be dropped so that
\* the king is no longer attacked.
C25_CheckmateReachable ==
  (line = 1 /\ ply = 0) =>
    /\ last.op = "makeMove" =>
         /\ last.to \in isLegalMove(last.before, last.from, last.to, FALSE)
         /\ gameState = makeMove(last.before, last.from, last.to)
    /\ last.op = "dropPiece" =>
         /\ last.result # NullState
         /\ gameState = last.result
    /\ idx = 0 => gameState = getInitialGameState
    /\ idx = Len(Lines[1]) =>
         /\ gameState.currentPlayer = "WHITE"
         /\ isCheckmate(gameState, "WHITE")
         /\ KingAttacked(gameState, "WHITE")
         /\ \A from \in Pos : LegalDestinations(gameState, from) = {}
         /\ \A t \in PieceTypes, to \in Pos :
              (gameState.player1Hand[t] > 0 /\ gameState.board[to] = NoPiece) =>
                KingAttacked([gameState EXCEPT !.board[to] = Pc(t, "WHITE")], "WHITE")

\* The last ply of recorded game 1, a drop, has just been played: WHITE is to
\* move and checkmated.
C25_Witness ==
  /\ line = 1
  /\ ply = 0
  /\ idx = Len(Lines[1])
  /\ last.op = "dropPiece"
  /\ gameState.currentPlayer = "WHITE"
  /\ isCheckmate(gameState, "WHITE")

\* C26: while a pawn of the player to move waits on its far rank, a move or
\* a drop sent by that player is not applied: the room's state stays as it
\* was and nothing is broadcast.
C26_NoActionWhilePromotionPending ==
  (/\ server = "route"
   /\ SenderWasToMove
   /\ last.kind \in {"move", "drop"}
   /\ \E to \in Pos : PromotionPending(last.before, last.before.currentPlayer, to))
  => /\ ~last.broadcast
     /\ SenderRoomState = last.before

\* The rooms a server with PlayerOrder's players can hold.
RoomIds == 1..Len(PlayerOrder)

\* Room r is a started room whose second player is the bot, it is the bot's
\* turn and getBotMove has an action for it.
BotToMove(r) ==
  /\ r \in DOMAIN gameRooms
  /\ gameRooms[r].isGameStarted
  /\ Len(gameRooms[r].players) = 2
  /\ gameRooms[r].players[2].isBot
  /\ gameRooms[r].gameState.currentPlayer = gameRooms[r].players[2].color
  /\ getBotMove(gameRooms[r].gameState, gameRooms[r].players[2].color) # {NoAction}

\* handleBotMove has just stored and broadcast the bot's action in room r.
BotActed(r) ==
  /\ last.op = "handleBotMove"
  /\ last.broadcast
  /\ r \in DOMAIN gameRooms
  /\ gameRooms[r].gameState = last.result

\* C27: in a started room whose second player is the bot, whenever it is the
\* bot's turn and the bot has a legal move or an accepted drop, an action
\* chosen by getBotMove is eventually applied to the room's game state and
\* broadcast: the match never stays forever on the bot's turn.
C27_BotEventuallyActs == \A r \in RoomIds : BotToMove(r) ~> BotActed(r)

\* C28: after any action of a player that the engine accepts (a move
\* isLegalMove returns, a drop for which dropPiece returns a state) that
\* player's own king is not in check in the resulting state; a player in
\* check cannot complete a drop that leaves the check standing.
C28_MoverNotInCheckAfterAction ==
  (last.op \in {"makeMove", "dropPiece"} /\ last.result \notin {NullState, Thrown}) =>
     ~isKingInCheck(last.result, last.before.currentPlayer)

\* The pieces on the grid and the pieces held in the two hands.
PiecesOnBoard(state) == Cardinality({p \in Pos : state.board[p] # NoPiece})

HandTotal(hand) ==
  hand.KING + hand.QUEEN + hand.ROOK + hand.BISHOP + hand.KNIGHT + hand.PAWN

PiecesInHands(state) == HandTotal(state.player1Hand) + HandTotal(state.player2Hand)

\* C29: in every state reached from the starting position by legal moves
\* and accepted drops, the pieces on the board and the counts of both hands
\* add up to 10: a capture moves a piece from the board to the capturer's
\* hand, a drop moves one from a hand to the board, nothing else creates or
\* destroys a piece.
C29_TenPieces == PiecesOnBoard(gameState) + PiecesInHands(gameState) = 10

\* A drop has just been accepted while a captured piece is still in a hand.
C29_Witness ==
  /\ last.op = "dropPiece"
  /\ last.result # NullState
  /\ PiecesInHands(last.before) > 1
  /\ PiecesInHands(gameState) = PiecesInHands(last.before) - 1
  /\ PiecesOnBoard(gameState) = PiecesOnBoard(last.before) + 1

\* C30: once a room's game state has isCheckmate or isStalemate true for the
\* player to move, the match is over: no later move or drop message from
\* either player changes the room's game state.
C30_NoActionAfterGameEnd ==
  (/\ last.op = "game_move"
   /\ last.before # NullState
   /\ \/ isCheckmate(last.before, last.before.currentPlayer)
      \/ isStalemate(last.before, last.before.currentPlayer))
  => (~last.broadcast /\ SenderRoomState = last.before)

\* The player to move has an action the engine accepts: a piece with a
\* non-empty isLegalMove result, or a held piece type and a cell for which
\* dropPiece returns a state.
HasAcceptedAction(state) ==
  \/ \E from \in Pos : isLegalMove(state, from, NullPos, TRUE) # {}
  \/ \E pieceType \in PieceTypes, to \in Pos :
       /\ HandOf(state, state.currentPlayer)[pieceType] > 0
       /\ dropPiece(state, pieceType, to) \notin {NullState, Thrown}

\* C31: for every state and color isCheckmate and isStalemate are never both
\* true, and whenever neither is true for the player to move that player
\* has at least one action the engine accepts.
C31_EndsExclusiveElseAction ==
  /\ \A color \in PlayerColors :
       ~(isCheckmate(gameState, color) /\ isStalemate(gameState, color))
  /\ (/\ ~isCheckmate(gameState, gameState.currentPlayer)
      /\ ~isStalemate(gameState, gameState.currentPlayer))
     => HasAcceptedAction(gameState)

\* The player to move is in check with no legal move, is not mated, and the
\* only accepted actions are drops.
C31_Witness ==
  /\ isKingInCheck(gameState, gameState.currentPlayer)
  /\ \A from \in Pos : isLegalMove(gameState, from, NullPos, TRUE) = {}
  /\ ~isCheckmate(gameState, gameState.currentPlayer)
  /\ ~isStalemate(gameState, gameState.currentPlayer)
  /\ HasAcceptedAction(gameState)

\* The player has an open connection and plays in a started room other
\* than the given one.
PlaysElsewhere(q, roomId) ==
  /\ q \in DOMAIN received
  /\ getRoomByPlayer(q) # NoRoomId
  /\ getRoomByPlayer(q) # roomId
  /\ gameRooms[getRoomByPlayer(q)].isGameStarted

\* C32: a game_state_update produced by an action in one room is delivered
\* only to the participants of that room: with two matches running at once,
\* a move in room A never changes the game state that a client playing in
\* room B receives and adopts.
C32_Step ==
  (idx' # idx /\ last'.op = "game_move" /\ last'.broadcast) =>
     \A q \in PlayerIds :
        PlaysElsewhere(q, getRoomByPlayer(last'.sender)) => received'[q] = received[q]

C32_UpdatesStayInRoom == [][C32_Step]_vars

\* The fields of a game state the server's update is to decide.
Shown(state) ==
  [board |-> state.board, player1Hand |-> state.player1Hand,
   player2Hand |-> state.player2Hand, currentPlayer |-> state.currentPlayer,
   lastMove |-> state.lastMove]

\* Every update sent has been received and the capture animation, if one was
\* started, has completed.
Settled == Mounted /\ inbox = <<>> /\ ~captureAnimation

\* C33: the optimistic makeMove result kept as the pending state never
\* overwrites a newer state received from the server: under every
\* interleaving of game_state_update deliveries and animation completions,
\* once all of them have happened the client's game state has the board,
\* hands, currentPlayer and lastMove of the latest state the server
\* broadcast.
C33_ServerStateWins == Settled => Shown(gameState) = Shown(received[Me])

\* The client's capture was animated to its end after the answer of the
\* other player had been received; the pending state is still held.
C33_Witness ==
  /\ Settled
  /\ animation
  /\ pendingGameState # NullState
  /\ PiecesInHands(pendingGameState) > 0
  /\ Shown(pendingGameState) # Shown(gameState)
  /\ gameState.currentPlayer = "BLACK"

\* ---------------------------------------------------------------------
\* The WebSocket client (lib/websocket-client.ts).

maxReconnectAttempts == 5

\* WebSocket objects the client creates in one run.
MaxSockets == 7

\* The fields of the WebSocketClient object with the browser's sockets and
\* the callbacks it has pending.
WsClient ==
  [ws |-> ws, sockets |-> sockets, reconnectAttempts |-> reconnectAttempts,
   isConnecting |-> isConnecting, reconnectTimers |-> reconnectTimers,
   connectTimeouts |-> connectTimeouts, connectionLost |-> connectionLost]

SetWsClient(c) ==
  /\ ws' = c.ws
  /\ sockets' = c.sockets
  /\ reconnectAttempts' = c.reconnectAttempts
  /\ isConnecting' = c.isConnecting
  /\ reconnectTimers' = c.reconnectTimers
  /\ connectTimeouts' = c.connectTimeouts
  /\ connectionLost' = c.connectionLost

\* WebSocket.close() on socket s (0: null, the optional call does nothing):
\* a connecting socket fails, an open one starts its closing handshake, a
\* closing or closed one is left alone.
close(socks, s) ==
  IF s = 0 THEN socks
  ELSE [socks EXCEPT ![s] = CASE @ = "CONNECTING" -> "FAILING"
                              [] @ = "OPEN" -> "CLOSING"
                              [] OTHER -> @]

\* connect(): rejected while connecting; else a new WebSocket with its
\* 10 second timeout.
wsConnect(c) ==
  IF c.isConnecting THEN c
  ELSE [c EXCEPT !.isConnecting = TRUE,
                 !.sockets = Append(@, "CONNECTING"),
                 !.ws = Len(c.sockets) + 1,
                 !.connectTimeouts = @ \cup {Len(c.sockets) + 1}]

\* handleDisconnection: schedule a reconnect, or notify connection_lost.
wsHandleDisconnection(c) ==
  IF c.reconnectAttempts < maxReconnectAttempts
  THEN [c EXCEPT !.reconnectAttempts = @ + 1, !.reconnectTimers = @ + 1]
  ELSE [c EXCEPT !.connectionLost = @ + 1]

\* The handlers connect() sets on socket s.
onopen(c, s) ==
  [c EXCEPT !.connectTimeouts = @ \ {s}, !.reconnectAttempts = 0, !.isConnecting = FALSE]

onclose(c, s) == wsHandleDisconnection([c EXCEPT !.isConnecting = FALSE])

onerror(c, s) == [c EXCEPT !.connectTimeouts = @ \ {s}, !.isConnecting = FALSE]

\* The 10 second timeout of connect(): it looks at this.ws as it is now.
connectTimeout(c) ==
  IF c.ws = 0 \/ c.sockets[c.ws] # "OPEN"
  THEN [c EXCEPT !.sockets = close(@, c.ws), !.isConnecting = FALSE]
  ELSE c

\* disconnect().
wsDisconnect(c) ==
  LET closed == IF c.ws # 0 THEN [c EXCEPT !.sockets = close(@, c.ws), !.ws = 0] ELSE c
  IN  [closed EXCEPT !.reconnectAttempts = maxReconnectAttempts]

\* The application calls connect(), once on each client object it creates
\* (matchmaking-screen.tsx, initializeConnection).
ClientConnect ==
  /\ ~disconnectCalled
  /\ sockets = <<>>
  /\ SetWsClient(wsConnect(WsClient))
  /\ UNCHANGED <<gameVars, disconnectCalled, reconnectsMade>>

\* The connection of socket s is established.
SocketOpen ==
  \E s \in DOMAIN sockets :
     /\ sockets[s] = "CONNECTING"
     /\ SetWsClient(onopen([WsClient EXCEPT !.sockets[s] = "OPEN"], s))
     /\ reconnectsMade' = 0
     /\ UNCHANGED <<gameVars, disconnectCalled>>

\* The connection of socket s fails: the error event, then the close event.
SocketFail ==
  \E s \in DOMAIN sockets :
     /\ sockets[s] \in {"CONNECTING", "FAILING"}
     /\ SetWsClient(onclose(onerror([WsClient EXCEPT !.sockets[s] = "CLOSED"], s), s))
     /\ UNCHANGED <<gameVars, disconnectCalled, reconnectsMade>>

\* The established connection of socket s is lost or finishes closing: the
\* close event.
SocketClose ==
  \E s \in DOMAIN sockets :
     /\ sockets[s] \in {"OPEN", "CLOSING"}
     /\ SetWsClient(onclose([WsClient EXCEPT !.sockets[s] = "CLOSED"], s))
     /\ UNCHANGED <<gameVars, disconnectCalled, reconnectsMade>>

\* The 10 second timeout of a connect() call runs.
ConnectTimeout ==
  \E s \in connectTimeouts :
     /\ SetWsClient(connectTimeout([WsClient EXCEPT !.connectTimeouts = @ \ {s}]))
     /\ UNCHANGED <<gameVars, disconnectCalled, reconnectsMade>>

\* A reconnect timer of handleDisconnection runs: connect(), a rejection
\* is caught.
ReconnectTimer ==
  /\ reconnectTimers > 0
  /\ Len(sockets) < MaxSockets
  /\ SetWsClient(wsConnect([WsClient EXCEPT !.reconnectTimers = @ - 1]))
  /\ reconnectsMade' = IF isConnecting THEN reconnectsMade ELSE reconnectsMade + 1
  /\ UNCHANGED <<gameVars, disconnectCalled>>

\* The application calls disconnect() (chess-board.tsx, matchmaking-screen.tsx).
ClientDisconnect ==
  /\ SetWsClient(wsDisconnect(WsClient))
  /\ disconnectCalled' = TRUE
  /\ UNCHANGED <<gameVars, reconnectsMade>>

InitSocket == Start /\ server = "none" /\ line = 1

NextSocket ==
  \/ ClientConnect
  \/ SocketOpen
  \/ SocketFail
  \/ SocketClose
  \/ ConnectTimeout
  \/ ReconnectTimer
  \/ ClientDisconnect

SpecSocket == InitSocket /\ [][NextSocket]_vars

\* ---------------------------------------------------------------------

\* The room holds the bot.
HoldsBot(room) == \E i \in 1..Len(room.players) : room.players[i].isBot

\* No room holds more than two players, and two players of one room are
\* one WHITE and one BLACK.
RoomsWellFormed ==
  \A r \in DOMAIN gameRooms :
     /\ Len(gameRooms[r].players) <= 2
     /\ Len(gameRooms[r].players) = 2 =>
          {gameRooms[r].players[1].color, gameRooms[r].players[2].color}
            = {"WHITE", "BLACK"}

\* A step that puts the bot in a room finds that room with exactly one
\* player and its game not started.
C34_Step ==
  \A r \in DOMAIN gameRooms' :
     (HoldsBot(gameRooms'[r]) /\ ~(r \in DOMAIN gameRooms /\ HoldsBot(gameRooms[r]))) =>
        /\ r \in DOMAIN gameRooms
        /\ Len(gameRooms[r].players) = 1
        /\ ~gameRooms[r].isGameStarted

\* C34: under every sequence of join, 60-second bot timeout and disconnect
\* events a room never holds more than two players, two players of one room
\* always have different colors, and a bot is added only to a room that has
\* exactly one player and whose game has not started.
C34_RoomsStayWellFormed == []RoomsWellFormed /\ [][C34_Step]_vars

\* After a disconnection or a repeated join: a room with a player and the
\* bot next to a started room that one player has left.
C34_Witness ==
  /\ ply > 0
  /\ \E r \in DOMAIN gameRooms, q \in DOMAIN gameRooms :
       /\ Len(gameRooms[r].players) = 2
       /\ HoldsBot(gameRooms[r])
       /\ Len(gameRooms[q].players) = 1
       /\ gameRooms[q].isGameStarted

\* Without disconnect(), at most maxReconnectAttempts connections in a row
\* are opened by reconnect timers.
C35_AtMostFive == ~disconnectCalled => reconnectsMade <= maxReconnectAttempts

\* Once disconnect() has been called no WebSocket object is created.
C35_Step == disconnectCalled => Len(sockets') = Len(sockets)

\* C35: after disconnect() has been called the client never opens a new
\* connection again, even when a reconnect timer had already been
\* scheduled by an earlier connection loss; and without disconnect() at
\* most 5 consecutive reconnect attempts are made before the
\* connection_lost handler is notified.
C35_NoConnectionAfterDisconnect == []C35_AtMostFive /\ [][C35_Step]_vars
====
